---- MODULE Spec2Model ----
(***************************************************************************)
(* CAPL signal transformer: the deterministic transformation engine        *)
(* (performLocalTransformation) and the terminal command interpreter       *)
(* (handleCommand) of the web application.                                 *)
(*                                                                         *)
(* A JavaScript string is modelled as a sequence of one-character strings, *)
(* so that "$A" is <<"$", "A">> and .length is Len.                        *)
(***************************************************************************)
EXTENDS Integers, Sequences, FiniteSets, TLC

VARIABLES
    \* ---- one call of performLocalTransformation(code, mode, mappings) ----
    code,             \* argument: the source text
    callMode,         \* argument: the TestMode
    callMappings,     \* argument: the SignalMapping[] passed in
    sortedMappings,   \* local: the sorted copy
    transformedCode,  \* local
    changesCount,     \* local
    idx,              \* position of forEach in sortedMappings
    pc,               \* "entry" | "forEach" | "done" | "back"
    result,           \* the returned TransformationResult
    back,             \* the result of transforming result.code in the opposite mode
    \* ---- history of the call (observations, not program state) ----
    args0,            \* the three arguments as they were at entry
    passes,           \* how many forEach callbacks have run
    applied,          \* the mappings that got past the emptiness check, in order
    lastPass,         \* what the latest replacing callback saw and did
    occSum,           \* literal occurrences summed over the callbacks so far
    \* ---- the state of the App component (App.tsx lines 17-31) ----
    inputCode,        \* the source text
    outputCode,       \* the transformed text
    mode,             \* the TestMode
    mappings,         \* the Mapping Store
    changeCount,      \* <<n>>, or <<>> for null
    isAiProcessing,
    isReadmeOpen,
    terminalLogs,     \* the log entries, oldest first
    effectPending,    \* the component has rendered first and its effect is due
    fileDialog,       \* the file selector opened last: "none" | "code" | "mapping"
    downloads,        \* the files handed to the browser for download
    alerts,           \* the messages shown with alert(), oldest first
    \* ---- the state of the MappingEditor component (lines 15-18) ----
    jsonError,        \* <<message>>, or <<>> for null
    isAiLoading,
    scanClosure,      \* <<the mappings and currentCode that the pending handleAiSuggest
                      \* was called with>>, or <<>> when none is pending
    events,           \* how many events the editor has handled (an observation)
    transformClosure, \* <<the inputCode that the pending handleAiTransform was
                      \* called with>>, or <<>> when none is pending
    cli               \* a run of the exported batch program: where it is, its
                      \* arguments, the files, and what it has printed and written

engineVars == <<code, callMode, callMappings, sortedMappings, transformedCode,
                changesCount, idx, pc, result, back>>
historyVars == <<args0, passes, applied, lastPass, occSum>>
appVars == <<inputCode, outputCode, mode, mappings, changeCount, isAiProcessing,
             isReadmeOpen, terminalLogs, effectPending, fileDialog, downloads, alerts,
             jsonError, isAiLoading, scanClosure, events, transformClosure>>
vars == <<engineVars, historyVars, appVars, cli>>

\* the batch program has not been started
NoRun == [pc |-> "none"]

----------------------------------------------------------------------------
(* types.ts *)

HIL == "HIL"
SIL == "SIL"
TestMode == {HIL, SIL}

OppositeMode(m) == IF m = SIL THEN HIL ELSE SIL

SignalMapping(i, r, s) == [id |-> i, realSignal |-> r, simSignal |-> s]

----------------------------------------------------------------------------
(* utils/transformer.ts *)

\* source / target of a mapping in a mode (lines 23-24)
SourceOf(m, map) == IF m = SIL THEN map.realSignal ELSE map.simSignal

\* the target taken from simSignal whatever the mode
TargetOfSimOnly(m, map) == map.simSignal

TargetOf(m, map) == IF m = SIL THEN map.simSignal ELSE map.realSignal

\* lenA / lenB of the comparator (lines 17-18)
SortLen(m, map) == Len(SourceOf(m, map))

\* the comparator written lenA - lenB
SortRankAscending(m, ms, i) ==
    1 + Cardinality({j \in 1..Len(ms) :
            \/ SortLen(m, ms[j]) < SortLen(m, ms[i])
            \/ SortLen(m, ms[j]) = SortLen(m, ms[i]) /\ j < i})

\* Position that element i of ms takes under Array.prototype.sort with the
\* comparator lenB - lenA (descending length); the sort is stable, so among
\* equal lengths the earlier element stays first.
SortRank(m, ms, i) ==
    1 + Cardinality({j \in 1..Len(ms) :
            \/ SortLen(m, ms[j]) > SortLen(m, ms[i])
            \/ SortLen(m, ms[j]) = SortLen(m, ms[i]) /\ j < i})

\* [...mappings].sort(...) (lines 16-20)
SortedCopy(m, ms) ==
    [k \in 1..Len(ms) |-> ms[CHOOSE i \in 1..Len(ms) : SortRank(m, ms, i) = k]]

\* the character class of line 29: . * + ? ^ $ { } ( ) | [ ] \
MetaChars == {".", "*", "+", "?", "^", "$", "{", "}", "(", ")", "|", "[", "]", "\\"}

\* the escape with "." left out of the character class
RECURSIVE EscapeRegExpNoDot(_)
EscapeRegExpNoDot(s) ==
    IF s = <<>> THEN <<>>
    ELSE (IF Head(s) \in MetaChars \ {"."} THEN <<"\\", Head(s)>> ELSE <<Head(s)>>)
         \o EscapeRegExpNoDot(Tail(s))

\* source.replace(/[.*+?^${}()|[\]\\]/g, '\\$&') (line 29): every
\* metacharacter gets a backslash in front of it.
RECURSIVE EscapeRegExp(_)
EscapeRegExp(s) ==
    IF s = <<>> THEN <<>>
    ELSE (IF Head(s) \in MetaChars THEN <<"\\", Head(s)>> ELSE <<Head(s)>>)
         \o EscapeRegExp(Tail(s))

\* new RegExp(escapedSource, 'g') (line 36): the pattern text is parsed into
\* atoms.  A backslash makes the next character a literal; an unescaped "."
\* matches any character but a line terminator; unescaped "^" and "$" are
\* the zero-width assertions.  (Quantifiers, groups and classes never reach
\* the parser: all their characters are in MetaChars.)
RECURSIVE RegExpAtoms(_)
RegExpAtoms(p) ==
    IF p = <<>> THEN <<>>
    ELSE IF Head(p) = "\\" /\ Len(p) >= 2
         THEN <<[kind |-> "char", ch |-> p[2]]>> \o RegExpAtoms(SubSeq(p, 3, Len(p)))
    ELSE IF Head(p) = "." THEN <<[kind |-> "any", ch |-> "."]>> \o RegExpAtoms(Tail(p))
    ELSE IF Head(p) = "^" THEN <<[kind |-> "bol", ch |-> "^"]>> \o RegExpAtoms(Tail(p))
    ELSE IF Head(p) = "$" THEN <<[kind |-> "eol", ch |-> "$"]>> \o RegExpAtoms(Tail(p))
    ELSE <<[kind |-> "char", ch |-> Head(p)]>> \o RegExpAtoms(Tail(p))

LineTerminators == {"\n", "\r"}

Consumes(atom) == atom.kind \in {"char", "any"}

\* how many characters the atoms before atom k consume
AtomOffset(atoms, k) == Cardinality({j \in 1..(k - 1) : Consumes(atoms[j])})

\* the length of every match of the atoms
MatchWidth(atoms) == AtomOffset(atoms, Len(atoms) + 1)

\* does the regular expression match the text starting at position i (1-based)
MatchesAt(atoms, text, i) ==
    \A k \in 1..Len(atoms) :
        LET pos == i + AtomOffset(atoms, k) IN
        CASE atoms[k].kind = "char" -> pos <= Len(text) /\ text[pos] = atoms[k].ch
          [] atoms[k].kind = "any"  -> pos <= Len(text) /\ text[pos] \notin LineTerminators
          [] atoms[k].kind = "bol"  -> pos = 1
          [] atoms[k].kind = "eol"  -> pos = Len(text) + 1

SetMin(S) == CHOOSE x \in S : \A y \in S : x <= y

\* The matches of a global regular expression, left to right from lastIndex:
\* after a match the scan resumes behind it (one further on after an empty
\* match).  Both transformedCode.match(regex) (line 39) and
\* transformedCode.replace(regex, target) (line 42) enumerate these.
RECURSIVE MatchIndices(_, _, _)
MatchIndices(atoms, text, lastIndex) ==
    LET found == {i \in lastIndex..(Len(text) + 1) : MatchesAt(atoms, text, i)} IN
    IF found = {} THEN <<>>
    ELSE LET i == SetMin(found)
             w == MatchWidth(atoms)
         IN  <<i>> \o MatchIndices(atoms, text, IF w = 0 THEN i + 1 ELSE i + w)

\* the grave accent (U+0060), which no string literal of this language can hold
backtick == "U+0060"
apostrophe == "'"

\* String.prototype.replace with a string as the replacement: the replacement
\* is a template in which $$ is a dollar sign, $& the matched text, $ with a
\* grave accent the text before the match and $ with an apostrophe the text
\* after it; any other $ stands for
\* itself (the regular expression has no capture groups).
RECURSIVE GetSubstitution(_, _, _, _)
GetSubstitution(matched, str, position, replacement) ==
    LET patterns == {i \in 1..(Len(replacement) - 1) :
                        /\ replacement[i] = "$"
                        /\ replacement[i + 1] \in {"$", "&", backtick, apostrophe}}
    IN  IF patterns = {} THEN replacement
        ELSE LET i == SetMin(patterns)
                 symbol == replacement[i + 1]
             IN  SubSeq(replacement, 1, i - 1)
                 \o (CASE symbol = "$" -> <<"$">>
                        [] symbol = "&" -> matched
                        [] symbol = backtick -> SubSeq(str, 1, position - 1)
                        [] symbol = apostrophe ->
                               SubSeq(str, position + Len(matched), Len(str)))
                 \o GetSubstitution(matched, str, position,
                                    SubSeq(replacement, i + 2, Len(replacement)))

\* transformedCode.replace(regex, target) (line 42): the text between the
\* matches is kept, each match becomes the expansion of the target.
RECURSIVE ReplaceFrom(_, _, _, _, _)
ReplaceFrom(text, indices, w, target, from) ==
    IF indices = <<>> THEN SubSeq(text, from, Len(text))
    ELSE LET i == Head(indices) IN
         SubSeq(text, from, i - 1)
         \o GetSubstitution(SubSeq(text, i, i + w - 1), text, i, target)
         \o ReplaceFrom(text, Tail(indices), w, target, i + w)

\* the check written if (!source) return;
SkippedSourceOnly(m, map) == SourceOf(m, map) = <<>>

\* if (!source || !target) return; (line 26)
Skipped(m, map) == SourceOf(m, map) = <<>> \/ TargetOf(m, map) = <<>>

\* the regular expression of lines 29 and 36
RegExpOf(source) == RegExpAtoms(EscapeRegExp(source))

\* the callback counting one change per rule that matched
ForEachBodyCountsRules(st, m, map) ==
    IF Skipped(m, map) THEN st
    ELSE LET regex == RegExpOf(SourceOf(m, map))
             matches == MatchIndices(regex, st.code, 1)
         IN  IF matches = <<>> THEN st
             ELSE [code |-> ReplaceFrom(st.code, matches, MatchWidth(regex),
                                        TargetOf(m, map), 1),
                   changes |-> st.changes + 1]

\* the callback scanning again what it has just put in
ForEachBodyRescans(st, m, map) ==
    IF Skipped(m, map) THEN st
    ELSE LET regex == RegExpOf(SourceOf(m, map))
             matches == MatchIndices(regex, st.code, 1)
             once == ReplaceFrom(st.code, matches, MatchWidth(regex), TargetOf(m, map), 1)
             again == MatchIndices(regex, once, 1)
         IN  IF matches = <<>> THEN st
             ELSE [code |-> ReplaceFrom(once, again, MatchWidth(regex), TargetOf(m, map), 1),
                   changes |-> st.changes + Len(matches) + Len(again)]

\* One callback of sortedMappings.forEach (lines 22-44) on the locals
\* st = [code, changes].
ForEachBody(st, m, map) ==
    IF Skipped(m, map) THEN st
    ELSE LET regex == RegExpOf(SourceOf(m, map))
             matches == MatchIndices(regex, st.code, 1)
         IN  IF matches = <<>> THEN st
             ELSE [code |-> ReplaceFrom(st.code, matches, MatchWidth(regex),
                                        TargetOf(m, map), 1),
                   changes |-> st.changes + Len(matches)]

RECURSIVE ForEachFrom(_, _, _, _)
ForEachFrom(st, m, sorted, k) ==
    IF k > Len(sorted) THEN st
    ELSE ForEachFrom(ForEachBody(st, m, sorted[k]), m, sorted, k + 1)

\* performLocalTransformation as a function of its arguments (lines 6-50)
performLocalTransformation(c, m, ms) ==
    ForEachFrom([code |-> c, changes |-> 0], m, SortedCopy(m, ms), 1)

----------------------------------------------------------------------------
(* The inputs of the calls that are checked *)

MaxTextLen == 3
MaxRules == 2

Chars == {"A", "B", "$", "."}

\* every text of at most MaxTextLen characters
Texts == UNION {[1..n -> Chars] : n \in 0..MaxTextLen}

\* Mappings the rule sequences are built from: a plain pair, a pattern that
\* extends another one, patterns with metacharacters, a target that holds
\* its own source, dollar signs in the targets, and a rule with an empty field.
RulePool == {
    SignalMapping(<<"1">>, <<"A">>, <<"B">>),
    SignalMapping(<<"2">>, <<"A", "B">>, <<"$", "$">>),
    SignalMapping(<<"3">>, <<"A", ".">>, <<"B">>),
    SignalMapping(<<"4">>, <<"$">>, <<".">>),
    SignalMapping(<<"5">>, <<"A">>, <<"A", "A">>),
    SignalMapping(<<"6">>, <<>>, <<"B">>) }

\* every sequence of at most MaxRules mappings of the pool
RuleSeqs == UNION {[1..n -> RulePool] : n \in 0..MaxRules}

Call(c, m, ms) == [code |-> c, mode |-> m, mappings |-> ms]

txtSpeed == <<"$", "S", "p", "e", "e", "d">>
txtSpeedFront == <<"$", "S", "p", "e", "e", "d", "F", "r", "o", "n", "t">>
txtDotTorque == <<"E", "n", "g", "i", "n", "e", "M", "s", "g", ".", "T", "o", "r", "q", "u", "e">>
txtXTorque == <<"E", "n", "g", "i", "n", "e", "M", "s", "g", "X", "T", "o", "r", "q", "u", "e">>
txtThreeA == <<"$", "A", " ", "$", "A", " ", "$", "A">>

ruleSpeed == SignalMapping(<<"1">>, txtSpeed, <<"A">>)
ruleSpeedFront == SignalMapping(<<"2">>, txtSpeedFront, <<"B">>)
ruleSpeedHil == SignalMapping(<<"1">>, <<"A">>, txtSpeed)
ruleSpeedFrontHil == SignalMapping(<<"2">>, <<"B">>, txtSpeedFront)
ruleTorque == SignalMapping(<<"1">>, txtDotTorque, <<"T">>)
ruleDollarA == SignalMapping(<<"1">>, <<"$", "A">>, <<"X">>)

\* the calls the specification names as examples
ExampleCalls == {
    Call(txtSpeedFront, SIL, <<ruleSpeed, ruleSpeedFront>>),
    Call(txtSpeedFront, SIL, <<ruleSpeedFront, ruleSpeed>>),
    Call(txtSpeedFront, HIL, <<ruleSpeedHil, ruleSpeedFrontHil>>),
    Call(txtSpeedFront, HIL, <<ruleSpeedFrontHil, ruleSpeedHil>>),
    Call(txtXTorque, SIL, <<ruleTorque>>),
    Call(txtDotTorque, SIL, <<ruleTorque>>),
    Call(txtThreeA, SIL, <<ruleDollarA>>) }

Calls == {Call(c, m, ms) : c \in Texts, m \in TestMode, ms \in RuleSeqs} \cup ExampleCalls

----------------------------------------------------------------------------
(* Literal text operations, defined without regular expressions: what the  *)
(* claims compare the engine with.                                         *)

\* the text holds pattern p, character for character, at position i
LiteralAt(p, text, i) ==
    /\ i + Len(p) - 1 <= Len(text)
    /\ \A k \in 1..Len(p) : text[i + k - 1] = p[k]

\* the occurrences of a non-empty p found scanning left to right, none overlapping
RECURSIVE LiteralOccurrences(_, _, _)
LiteralOccurrences(p, text, from) ==
    IF from > Len(text) THEN <<>>
    ELSE IF LiteralAt(p, text, from)
         THEN <<from>> \o LiteralOccurrences(p, text, from + Len(p))
         ELSE LiteralOccurrences(p, text, from + 1)

\* the text with the (non-overlapping, ascending) occurrences of width w
\* replaced by exactly the characters of t
RECURSIVE LiteralReplace(_, _, _, _, _)
LiteralReplace(text, occ, w, t, from) ==
    IF occ = <<>> THEN SubSeq(text, from, Len(text))
    ELSE SubSeq(text, from, Head(occ) - 1) \o t
         \o LiteralReplace(text, Tail(occ), w, t, Head(occ) + w)

----------------------------------------------------------------------------
(* One call of performLocalTransformation, statement by statement *)

NoPass == [text |-> <<>>, source |-> <<>>, target |-> <<>>, indices |-> <<>>, out |-> <<>>]
NoResult == [code |-> <<>>, changes |-> 0]

InitEngine ==
    \E call \in Calls :
        /\ code = call.code
        /\ callMode = call.mode
        /\ callMappings = call.mappings
        /\ args0 = call
        /\ sortedMappings = <<>>
        /\ transformedCode = <<>>
        /\ changesCount = 0
        /\ idx = 0
        /\ pc = "entry"
        /\ result = NoResult
        /\ back = NoResult
        /\ passes = 0
        /\ applied = <<>>
        /\ lastPass = NoPass
        /\ occSum = 0
        /\ inputCode = <<>>
        /\ outputCode = <<>>
        /\ mode = SIL
        /\ mappings = <<>>
        /\ changeCount = <<>>
        /\ isAiProcessing = FALSE
        /\ isReadmeOpen = FALSE
        /\ terminalLogs = <<>>
        /\ effectPending = FALSE
        /\ fileDialog = "none"
        /\ alerts = <<>>
        /\ jsonError = <<>>
        /\ isAiLoading = FALSE
        /\ scanClosure = <<>>
        /\ events = 0
        /\ transformClosure = <<>>
        /\ cli = NoRun
        /\ downloads = <<>>

\* the call has been made and its body has not started
AtEntry == pc = "entry"

\* forEach has a next element / has passed the last one
HasNext == pc = "forEach" /\ idx <= Len(sortedMappings)
AtEnd == pc = "forEach" /\ idx > Len(sortedMappings)

\* the sort applied to the argument itself, mappings.sort(...)
EnterSortsInPlace ==
    /\ AtEntry
    /\ transformedCode' = code
    /\ changesCount' = 0
    /\ sortedMappings' = SortedCopy(callMode, callMappings)
    /\ callMappings' = SortedCopy(callMode, callMappings)
    /\ idx' = 1
    /\ pc' = "forEach"
    /\ UNCHANGED <<code, callMode, result, back, historyVars, appVars, cli>>

\* lines 11-20: the locals are initialised and a copy of mappings is sorted
Enter ==
    /\ AtEntry
    /\ transformedCode' = code
    /\ changesCount' = 0
    /\ sortedMappings' = SortedCopy(callMode, callMappings)
    /\ idx' = 1
    /\ pc' = "forEach"
    /\ UNCHANGED <<code, callMode, callMappings, result, back, historyVars, appVars, cli>>

\* the callback run again on the same mapping for as long as it replaces
ForEachUntilNoMatch ==
    /\ HasNext
    /\ LET map == sortedMappings[idx]
           st == ForEachBody([code |-> transformedCode, changes |-> changesCount],
                             callMode, map)
       IN  /\ transformedCode' = st.code
           /\ changesCount' = st.changes
           /\ passes' = passes + 1
           /\ idx' = IF st.changes > changesCount THEN idx ELSE idx + 1
    /\ UNCHANGED <<code, callMode, callMappings, sortedMappings, pc, result, back,
                   args0, applied, lastPass, occSum, appVars, cli>>

\* lines 22-44: the callback of forEach runs on the next sorted mapping
ForEach ==
    /\ HasNext
    /\ LET map == sortedMappings[idx]
           source == SourceOf(callMode, map)
           target == TargetOf(callMode, map)
           st == ForEachBody([code |-> transformedCode, changes |-> changesCount],
                             callMode, map)
       IN  /\ transformedCode' = st.code
           /\ changesCount' = st.changes
           /\ passes' = passes + 1
           /\ IF Skipped(callMode, map)
              THEN UNCHANGED <<applied, lastPass, occSum>>
              ELSE /\ applied' = Append(applied, map)
                   /\ lastPass' = [text |-> transformedCode, source |-> source,
                                   target |-> target,
                                   indices |-> MatchIndices(RegExpOf(source), transformedCode, 1),
                                   out |-> st.code]
                   /\ occSum' = occSum + Len(LiteralOccurrences(source, transformedCode, 1))
    /\ idx' = idx + 1
    /\ UNCHANGED <<code, callMode, callMappings, sortedMappings, pc, result, back, args0,
                   appVars, cli>>

\* lines 46-49
Return ==
    /\ AtEnd
    /\ result' = [code |-> transformedCode, changes |-> changesCount]
    /\ pc' = "done"
    /\ UNCHANGED <<code, callMode, callMappings, sortedMappings, transformedCode,
                   changesCount, idx, back, historyVars, appVars, cli>>

\* The caller transforms the returned text back, in the opposite mode with
\* the same mappings.
TransformBack ==
    /\ pc = "done"
    /\ back' = performLocalTransformation(result.code, OppositeMode(callMode), callMappings)
    /\ pc' = "back"
    /\ UNCHANGED <<code, callMode, callMappings, sortedMappings, transformedCode,
                   changesCount, idx, result, historyVars, appVars, cli>>

NextEngine == Enter \/ ForEach \/ Return \/ TransformBack

SpecEngine == InitEngine /\ [][NextEngine]_vars

----------------------------------------------------------------------------
(* Claims about performLocalTransformation *)

Returned == pc \in {"done", "back"}

\* a rule with an empty realSignal or simSignal
Inert(map) == map.realSignal = <<>> \/ map.simSignal = <<>>

NotInert(map) == ~Inert(map)

WithoutInert(ms) == SelectSeq(ms, NotInert)

MaxSortLen(m, ms) ==
    IF ms = <<>> THEN 0
    ELSE SetMin({n \in 0..100 : \A i \in 1..Len(ms) : SortLen(m, ms[i]) <= n})

\* the usable rules of ms, longest pattern first and rules of one pattern
\* length in the order they have in ms
RECURSIVE ByDescendingLength(_, _, _)
ByDescendingLength(m, ms, n) ==
    IF n = 0 THEN <<>>
    ELSE LET HasLen(map) == NotInert(map) /\ SortLen(m, map) = n
         IN  SelectSeq(ms, HasLen) \o ByDescendingLength(m, ms, n - 1)

SpeedFrontCalls == {
    Call(txtSpeedFront, SIL, <<ruleSpeed, ruleSpeedFront>>),
    Call(txtSpeedFront, SIL, <<ruleSpeedFront, ruleSpeed>>),
    Call(txtSpeedFront, HIL, <<ruleSpeedHil, ruleSpeedFrontHil>>),
    Call(txtSpeedFront, HIL, <<ruleSpeedFrontHil, ruleSpeedHil>>) }

\* C1: the usable rules are applied longest active-mode pattern first, rules
\* of equal pattern length in their input order; with {$Speed -> A} and
\* {$SpeedFront -> B} in either order, "$SpeedFront" becomes "B" with 1 change.
C1_LongestPatternFirst ==
    Returned =>
        /\ applied = ByDescendingLength(callMode, callMappings,
                                        MaxSortLen(callMode, callMappings))
        /\ (args0 \in SpeedFrontCalls => result = [code |-> <<"B">>, changes |-> 1])

\* the short pattern came first in the input and was applied last
C1_Witness ==
    /\ pc = "done"
    /\ args0 = Call(txtSpeedFront, SIL, <<ruleSpeed, ruleSpeedFront>>)
    /\ applied = <<ruleSpeedFront, ruleSpeed>>
    /\ result.code = <<"B">>

\* C2: the regular expression built from a pattern matches at a position
\* exactly when the text there equals the pattern character for character,
\* so what a callback replaces are the left-to-right occurrences of the
\* literal pattern; "EngineMsg.Torque" finds nothing in "EngineMsgXTorque".
C2_LiteralMatch ==
    lastPass # NoPass =>
        /\ \A i \in 1..(Len(lastPass.text) + 1) :
                MatchesAt(RegExpOf(lastPass.source), lastPass.text, i)
                    <=> LiteralAt(lastPass.source, lastPass.text, i)
        /\ lastPass.indices = LiteralOccurrences(lastPass.source, lastPass.text, 1)
        /\ (lastPass.source = txtDotTorque /\ lastPass.text = txtXTorque
                => lastPass.out = txtXTorque)

\* a pattern with a "." met a text that differs from it only at the "."
C2_Witness ==
    /\ lastPass.source = txtDotTorque
    /\ lastPass.text = txtXTorque
    /\ lastPass.indices = <<>>
    /\ pc = "done"
    /\ result = [code |-> txtXTorque, changes |-> 0]

\* C3: every replaced occurrence becomes exactly the characters of the
\* rule's replacement field.
C3_ExactReplacement ==
    lastPass # NoPass =>
        lastPass.out = LiteralReplace(lastPass.text, lastPass.indices,
                                      Len(lastPass.source), lastPass.target, 1)

\* C4: changes is the sum, over the rules in application order, of the
\* non-overlapping left-to-right occurrences of the rule's pattern in the
\* text as it stands when the rule is applied; "$A $A $A" with {$A -> X}
\* in SIL mode gives "X X X" and 3.
C4_ChangesCount ==
    /\ changesCount = occSum
    /\ (Returned =>
            /\ result.changes = occSum
            /\ (args0 = Call(txtThreeA, SIL, <<ruleDollarA>>)
                    => result = [code |-> <<"X", " ", "X", " ", "X">>, changes |-> 3]))

C4_Witness ==
    /\ pc = "done"
    /\ args0 = Call(txtThreeA, SIL, <<ruleDollarA>>)
    /\ result.changes = 3

\* C5: rules with an empty realSignal or simSignal change nothing: the
\* result is that of the call with those rules removed, and {code: text,
\* changes: 0} when no other rule is given.
C5_InertRules ==
    Returned =>
        /\ result = performLocalTransformation(code, callMode, WithoutInert(callMappings))
        /\ (WithoutInert(callMappings) = <<>> => result = [code |-> code, changes |-> 0])

\* an inert rule whose non-empty field occurs in the text, next to a rule that replaced
C5_Witness ==
    /\ pc = "done"
    /\ result.changes > 0
    /\ \E i \in 1..Len(callMappings) :
          /\ Inert(callMappings[i])
          /\ SourceOf(callMode, callMappings[i]) # <<>>
          /\ LiteralOccurrences(SourceOf(callMode, callMappings[i]), code, 1) # <<>>

\* p occurs in q as a substring (a prefix included)
SubstringOf(p, q) == \E i \in 1..(Len(q) + 1) : LiteralAt(p, q, i)

\* In mode m, among the usable rules of ms: no pattern is a substring of
\* another rule's pattern and no replacement holds another rule's pattern.
NoPatternClash(m, ms) ==
    LET us == WithoutInert(ms) IN
    \A i, j \in 1..Len(us) :
        i # j => /\ ~SubstringOf(SourceOf(m, us[i]), SourceOf(m, us[j]))
                 /\ ~SubstringOf(SourceOf(m, us[j]), TargetOf(m, us[i]))

\* the condition of the round trip, read for the way there and the way back
RoundTripRules(ms) == NoPatternClash(SIL, ms) /\ NoPatternClash(HIL, ms)

CharsOf(s) == {s[i] : i \in 1..Len(s)}

\* a replacement template that String.prototype.replace expands
HasDollarPattern(s) ==
    \E i \in 1..(Len(s) - 1) : s[i] = "$" /\ s[i + 1] \in {"$", "&", backtick, apostrophe}

\* exactly one rule of ms is usable, its fields hold no $$, $& or $ before
\* a grave accent or an apostrophe,
\* and no character of its replacement in mode m occurs in the text
FreshSingleRule(m, ms, text) ==
    LET us == WithoutInert(ms) IN
    /\ Len(us) = 1
    /\ ~HasDollarPattern(us[1].realSignal)
    /\ ~HasDollarPattern(us[1].simSignal)
    /\ CharsOf(TargetOf(m, us[1])) \cap CharsOf(text) = {}

ruleSelf == SignalMapping(<<"5">>, <<"A">>, <<"A", "A">>)

\* C7: every call returns, after one callback per rule: a call that has not
\* returned can always take its next step, the callbacks run so far are
\* the rules forEach has passed, and at the return there was one per rule;
\* with {A -> AA} each "A" of the text is doubled once and the inserted
\* text is not expanded again.
C7_Terminates ==
    /\ ~Returned => AtEntry \/ HasNext \/ AtEnd
    /\ pc = "forEach" =>
            /\ Len(sortedMappings) = Len(callMappings)
            /\ idx \in 1..(Len(callMappings) + 1)
            /\ passes = idx - 1
    /\ Returned =>
            /\ passes = Len(callMappings)
            /\ (callMappings = <<ruleSelf>> /\ callMode = SIL =>
                    result.code = LiteralReplace(code, LiteralOccurrences(<<"A">>, code, 1),
                                                 1, <<"A", "A">>, 1))

C7_Witness ==
    /\ pc = "done"
    /\ callMappings = <<ruleSelf>>
    /\ callMode = SIL
    /\ result.changes = 2
    /\ Len(result.code) = Len(code) + 2

\* C8: the call leaves its arguments as they were: the same rules in the
\* same order with the same fields, the same text and mode.
C8_ArgumentsUnchanged ==
    Call(code, callMode, callMappings) = args0

\* the sorted copy differs from the argument, the call has returned
C8_Witness ==
    /\ pc = "done"
    /\ sortedMappings # callMappings
    /\ result.changes > 0

----------------------------------------------------------------------------
(* constants.ts *)

DEFAULT_CAPL_CODE ==
    <<"/", "*", " ", "C", "A", "P", "L", " ", "T", "e", "s", "t", " ", "N", "o", "d", "e", " ", "*", "/", "\n">>
    \o <<"v", "a", "r", "i", "a", "b", "l", "e", "s", " ", "{", "\n">>
    \o <<" ", " ", "m", "e", "s", "s", "a", "g", "e", " ", "E", "n", "g", "i", "n", "e", "S", "t", "a", "t", "u", "s", " ", "m", "s", "g", "E", "n", "g", "i", "n", "e", ";", "\n">>
    \o <<" ", " ", "t", "i", "m", "e", "r", " ", "t", "C", "h", "e", "c", "k", ";", "\n">>
    \o <<"}", "\n">>
    \o <<"\n">>
    \o <<"o", "n", " ", "s", "t", "a", "r", "t", " ", "{", "\n">>
    \o <<" ", " ", "s", "e", "t", "T", "i", "m", "e", "r", "(", "t", "C", "h", "e", "c", "k", ",", " ", "1", "0", "0", ")", ";", "\n">>
    \o <<"}", "\n">>
    \o <<"\n">>
    \o <<"o", "n", " ", "t", "i", "m", "e", "r", " ", "t", "C", "h", "e", "c", "k", " ", "{", "\n">>
    \o <<" ", " ", "/", "/", " ", "R", "e", "a", "d", " ", "e", "n", "g", "i", "n", "e", " ", "s", "p", "e", "e", "d", "\n">>
    \o <<" ", " ", "i", "f", " ", "(", "$", "E", "n", "g", "i", "n", "e", "S", "p", "e", "e", "d", " ", ">", " ", "3", "0", "0", "0", ")", " ", "{", "\n">>
    \o <<" ", " ", " ", " ", "w", "r", "i", "t", "e", "(", "\"", "H", "i", "g", "h", " ", "S", "p", "e", "e", "d", " ", "D", "e", "t", "e", "c", "t", "e", "d", ":", " ", "%", "f", "\"", ",", " ", "$", "E", "n", "g", "i", "n", "e", "S", "p", "e", "e", "d", ")", ";", "\n">>
    \o <<" ", " ", " ", " ", "\n">>
    \o <<" ", " ", " ", " ", "/", "/", " ", "C", "h", "e", "c", "k", " ", "s", "p", "e", "c", "i", "f", "i", "c", " ", "m", "e", "s", "s", "a", "g", "e", " ", "s", "i", "g", "n", "a", "l", "\n">>
    \o <<" ", " ", " ", " ", "i", "f", " ", "(", "E", "n", "g", "i", "n", "e", "M", "s", "g", ".", "T", "o", "r", "q", "u", "e", " ", ">", " ", "2", "5", "0", ".", "0", ")", " ", "{", "\n">>
    \o <<" ", " ", " ", " ", " ", " ", "/", "/", " ", "T", "r", "i", "g", "g", "e", "r", " ", "p", "r", "o", "t", "e", "c", "t", "i", "o", "n", "\n">>
    \o <<" ", " ", " ", " ", " ", " ", "o", "u", "t", "p", "u", "t", "(", "m", "s", "g", "E", "n", "g", "i", "n", "e", ")", ";", "\n">>
    \o <<" ", " ", " ", " ", "}", "\n">>
    \o <<" ", " ", "}", "\n">>
    \o <<"}", "\n">>
    \o <<"\n">>
    \o <<"o", "n", " ", "k", "e", "y", " ", "'", "a", "'", " ", "{", "\n">>
    \o <<" ", " ", "$", "E", "n", "g", "i", "n", "e", "S", "p", "e", "e", "d", " ", "=", " ", "0", ";", "\n">>
    \o <<" ", " ", "E", "n", "g", "i", "n", "e", "M", "s", "g", ".", "T", "o", "r", "q", "u", "e", " ", "=", " ", "0", ";", "\n">>
    \o <<"}", "\n">>

sigEngineSpeed == <<"$", "E", "n", "g", "i", "n", "e", "S", "p", "e", "e", "d">>
sigSysvarSpeed == <<"s", "y", "s", "v", "a", "r", ":", ":", "E", "n", "g", "i", "n", "e", ":", ":", "S", "p", "e", "e", "d">>
sigEngineTorque == <<"E", "n", "g", "i", "n", "e", "M", "s", "g", ".", "T", "o", "r", "q", "u", "e">>
sigSysvarTorque == <<"s", "y", "s", "v", "a", "r", ":", ":", "P", "o", "w", "e", "r", "t", "r", "a", "i", "n", ":", ":", "T", "o", "r", "q", "u", "e">>
sigOutput == <<"o", "u", "t", "p", "u", "t", "(", "m", "s", "g", "E", "n", "g", "i", "n", "e", ")">>
sigInjectFrame == <<"s", "y", "s", "v", "a", "r", ":", ":", "B", "u", "s", ":", ":", "I", "n", "j", "e", "c", "t", "F", "r", "a", "m", "e", "(", "m", "s", "g", "E", "n", "g", "i", "n", "e", ")">>

descSpeed == <<"E", "n", "g", "i", "n", "e", " ", "S", "p", "e", "e", "d", " ", "R", "P",
    "M">>
descTorque == <<"E", "n", "g", "i", "n", "e", " ", "T", "o", "r", "q", "u", "e", " ", "N",
    "m">>
descOutput == <<"O", "u", "t", "p", "u", "t", " ", "f", "u", "n", "c", "t", "i", "o", "n",
    " ", "r", "e", "p", "l", "a", "c", "e", "m", "e", "n", "t">>

DEFAULT_MAPPINGS == <<
    [id |-> <<"1">>, realSignal |-> sigEngineSpeed, simSignal |-> sigSysvarSpeed,
     description |-> descSpeed],
    [id |-> <<"2">>, realSignal |-> sigEngineTorque, simSignal |-> sigSysvarTorque,
     description |-> descTorque],
    [id |-> <<"3">>, realSignal |-> sigOutput, simSignal |-> sigInjectFrame,
     description |-> descOutput] >>

PRESET_BODY == <<
    [id |-> <<"b", "1">>,
     realSignal |-> <<"$", "D", "o", "o", "r", "S", "t", "a", "t", "u", "s">>,
     simSignal |-> <<"s", "y", "s", "v", "a", "r", ":", ":", "B", "o", "d", "y", ":", ":", "D", "o", "o", "r", "S", "t", "a", "t", "e">>,
     description |-> <<"D", "o", "o", "r", " ", "O", "p", "e", "n", "/", "C", "l", "o", "s", "e">>],
    [id |-> <<"b", "2">>,
     realSignal |-> <<"L", "i", "g", "h", "t", "s", ".", "H", "e", "a", "d", "l", "i", "g", "h", "t">>,
     simSignal |-> <<"s", "y", "s", "v", "a", "r", ":", ":", "L", "i", "g", "h", "t", "s", ":", ":", "H", "e", "a", "d", "l", "i", "g", "h", "t", "O", "n">>,
     description |-> <<"H", "e", "a", "d", "l", "i", "g", "h", "t", "s">>],
    [id |-> <<"b", "3">>,
     realSignal |-> <<"$", "W", "i", "n", "d", "o", "w", "P", "o", "s">>,
     simSignal |-> <<"s", "y", "s", "v", "a", "r", ":", ":", "B", "o", "d", "y", ":", ":", "W", "i", "n", "d", "o", "w", "P", "o", "s", "i", "t", "i", "o", "n">>,
     description |-> <<"W", "i", "n", "d", "o", "w", " ", "P", "o", "s", "i", "t", "i", "o", "n">>],
    [id |-> <<"b", "4">>,
     realSignal |-> <<"o", "u", "t", "p", "u", "t", "(", "m", "s", "g", "B", "o", "d", "y", ")">>,
     simSignal |-> <<"s", "y", "s", "v", "a", "r", ":", ":", "B", "u", "s", ":", ":", "I", "n", "j", "e", "c", "t", "F", "r", "a", "m", "e", "(", "m", "s", "g", "B", "o", "d", "y", ")">>,
     description |-> <<"O", "u", "t", "p", "u", "t", " ", "r", "e", "p", "l", "a", "c", "e", "m", "e", "n", "t">>] >>

PRESET_ADAS == <<
    [id |-> <<"a", "1">>,
     realSignal |-> <<"$", "R", "a", "d", "a", "r", "O", "b", "j", "1", "_", "D", "i", "s", "t">>,
     simSignal |-> <<"s", "y", "s", "v", "a", "r", ":", ":", "S", "e", "n", "s", "o", "r", "s", ":", ":", "R", "a", "d", "a", "r", ":", ":", "O", "b", "j", "1", ":", ":", "D", "i", "s", "t">>,
     description |-> <<"R", "a", "d", "a", "r", " ", "D", "i", "s", "t", "a", "n", "c", "e">>],
    [id |-> <<"a", "2">>,
     realSignal |-> <<"C", "a", "m", "e", "r", "a", "M", "s", "g", ".", "L", "a", "n", "e", "D", "e", "v">>,
     simSignal |-> <<"s", "y", "s", "v", "a", "r", ":", ":", "S", "e", "n", "s", "o", "r", "s", ":", ":", "C", "a", "m", "e", "r", "a", ":", ":", "L", "a", "n", "e", "D", "e", "v", "i", "a", "t", "i", "o", "n">>,
     description |-> <<"L", "a", "n", "e", " ", "D", "e", "v", "i", "a", "t", "i", "o", "n">>],
    [id |-> <<"a", "3">>,
     realSignal |-> <<"$", "A", "E", "B", "_", "A", "c", "t", "i", "v", "e">>,
     simSignal |-> <<"s", "y", "s", "v", "a", "r", ":", ":", "A", "D", "A", "S", ":", ":", "A", "E", "B", "_", "S", "t", "a", "t", "u", "s">>,
     description |-> <<"A", "E", "B", " ", "T", "r", "i", "g", "g", "e", "r">>] >>

\* MAPPING_PRESETS (lines 53-66)
MAPPING_PRESETS ==
    ("Powertrain (Default)" :> DEFAULT_MAPPINGS) @@ ("Body Control" :> PRESET_BODY)
        @@ ("ADAS Sensors" :> PRESET_ADAS)

INITIAL_MODE == SIL

----------------------------------------------------------------------------
(* String operations of the command parser *)

Whitespace == {" ", "\t", "\n", "\r"}

RECURSIVE TrimStart(_)
TrimStart(s) == IF s # <<>> /\ Head(s) \in Whitespace THEN TrimStart(Tail(s)) ELSE s

RECURSIVE TrimEnd(_)
TrimEnd(s) ==
    IF s # <<>> /\ s[Len(s)] \in Whitespace THEN TrimEnd(SubSeq(s, 1, Len(s) - 1)) ELSE s

\* String.prototype.trim
Trim(s) == TrimEnd(TrimStart(s))

UpperCase == <<"A", "B", "C", "D", "E", "F", "G", "H", "I", "J", "K", "L", "M",
               "N", "O", "P", "Q", "R", "S", "T", "U", "V", "W", "X", "Y", "Z">>
LowerCase == <<"a", "b", "c", "d", "e", "f", "g", "h", "i", "j", "k", "l", "m",
               "n", "o", "p", "q", "r", "s", "t", "u", "v", "w", "x", "y", "z">>

ToLowerChar(c) ==
    IF \E i \in 1..Len(UpperCase) : UpperCase[i] = c
    THEN LowerCase[CHOOSE i \in 1..Len(UpperCase) : UpperCase[i] = c]
    ELSE c

\* String.prototype.toLowerCase
ToLowerCase(s) == [i \in 1..Len(s) |-> ToLowerChar(s[i])]

\* String.prototype.indexOf of one character, 1-based; 0 stands for -1
IndexOf(s, c) ==
    IF \E i \in 1..Len(s) : s[i] = c THEN SetMin({i \in 1..Len(s) : s[i] = c}) ELSE 0

\* String.prototype.includes
Includes(s, sub) ==
    \E i \in 1..(Len(s) - Len(sub) + 1) : SubSeq(s, i, i + Len(sub) - 1) = sub

\* arg.replace(/^"|"$/g, '') (line 212)
StripQuotes(s) ==
    LET a == IF s # <<>> /\ Head(s) = "\"" THEN Tail(s) ELSE s
    IN  IF a # <<>> /\ a[Len(a)] = "\"" THEN SubSeq(a, 1, Len(a) - 1) ELSE a

Digits == <<"0", "1", "2", "3", "4", "5", "6", "7", "8", "9">>

\* a non-negative integer inside a template literal
RECURSIVE NumToString(_)
NumToString(n) ==
    IF n < 10 THEN <<Digits[n + 1]>>
    ELSE NumToString(n \div 10) \o <<Digits[(n % 10) + 1]>>

----------------------------------------------------------------------------
(* JSON texts as the imports and the export read and write them *)

\* A parsed JSON value: a string or a number with its characters, one of the
\* literals null, true and false, an array of values, or an object with its
\* members in the order of the text.
JString(cs) == [type |-> "string", chars |-> cs]
JNumber(cs) == [type |-> "number", chars |-> cs]
JLiteral(name) == [type |-> name]
JArray(items) == [type |-> "array", items |-> items]
JObject(members) == [type |-> "object", members |-> members]

ParseFailed == [ok |-> FALSE]
Parsed(v, next) == [ok |-> TRUE, value |-> v, next |-> next]

\* the position of the first character at or after i that is not white space
SkipWs(t, i) == SetMin({j \in i..(Len(t) + 1) : j = Len(t) + 1 \/ t[j] \notin Whitespace})

StartsWithAt(t, i, word) ==
    i + Len(word) - 1 <= Len(t) /\ SubSeq(t, i, i + Len(word) - 1) = word

\* the characters written after a backslash and what they stand for; the
\* texts of the model use no other escape
Escapes == [c \in {"\"", "\\", "/", "n", "t", "r"} |->
               CASE c = "n" -> "\n" [] c = "t" -> "\t" [] c = "r" -> "\r" [] OTHER -> c]

\* the rest of a string literal from position i on, acc holding its value so far
RECURSIVE ParseChars(_, _, _)
ParseChars(t, i, acc) ==
    IF i > Len(t) \/ t[i] \in {"\n", "\t", "\r"} THEN ParseFailed
    ELSE IF t[i] = "\"" THEN Parsed(JString(acc), i + 1)
    ELSE IF t[i] = "\\"
         THEN IF i + 1 <= Len(t) /\ t[i + 1] \in DOMAIN Escapes
              THEN ParseChars(t, i + 2, Append(acc, Escapes[t[i + 1]]))
              ELSE ParseFailed
    ELSE ParseChars(t, i + 1, Append(acc, t[i]))

DigitChars == {Digits[k] : k \in 1..Len(Digits)}

\* an integer literal starting at i: an optional minus, then 0 or a run of
\* digits with no leading 0
ParseNumber(t, i) ==
    LET from == IF t[i] = "-" THEN i + 1 ELSE i
        stop == SetMin({j \in from..(Len(t) + 1) : j = Len(t) + 1 \/ t[j] \notin DigitChars})
    IN  IF stop = from \/ (t[from] = "0" /\ stop > from + 1) THEN ParseFailed
        ELSE Parsed(JNumber(SubSeq(t, i, stop - 1)), stop)

RECURSIVE ParseValue(_, _), ParseElements(_, _, _), ParseMembers(_, _, _)

\* the value that starts, after white space, at position i
ParseValue(t, i) ==
    LET j == SkipWs(t, i)
    IN  IF j > Len(t) THEN ParseFailed
        ELSE IF t[j] = "\"" THEN ParseChars(t, j + 1, <<>>)
        ELSE IF t[j] = "[" THEN
            IF SkipWs(t, j + 1) <= Len(t) /\ t[SkipWs(t, j + 1)] = "]"
            THEN Parsed(JArray(<<>>), SkipWs(t, j + 1) + 1)
            ELSE ParseElements(t, j + 1, <<>>)
        ELSE IF t[j] = "{" THEN
            IF SkipWs(t, j + 1) <= Len(t) /\ t[SkipWs(t, j + 1)] = "}"
            THEN Parsed(JObject(<<>>), SkipWs(t, j + 1) + 1)
            ELSE ParseMembers(t, j + 1, <<>>)
        ELSE IF StartsWithAt(t, j, <<"n", "u", "l", "l">>) THEN Parsed(JLiteral("null"), j + 4)
        ELSE IF StartsWithAt(t, j, <<"t", "r", "u", "e">>) THEN Parsed(JLiteral("true"), j + 4)
        ELSE IF StartsWithAt(t, j, <<"f", "a", "l", "s", "e">>)
             THEN Parsed(JLiteral("false"), j + 5)
        ELSE IF t[j] = "-" \/ t[j] \in DigitChars THEN ParseNumber(t, j)
        ELSE ParseFailed

\* the elements of an array from position i on, up to its closing bracket
ParseElements(t, i, acc) ==
    LET v == ParseValue(t, i)
    IN  IF ~v.ok THEN ParseFailed
        ELSE LET j == SkipWs(t, v.next)
             IN  IF j > Len(t) THEN ParseFailed
                 ELSE IF t[j] = "]" THEN Parsed(JArray(Append(acc, v.value)), j + 1)
                 ELSE IF t[j] = "," THEN ParseElements(t, j + 1, Append(acc, v.value))
                 ELSE ParseFailed

\* the members of an object from position i on, up to its closing brace
ParseMembers(t, i, acc) ==
    LET k == SkipWs(t, i)
    IN  IF k > Len(t) \/ t[k] # "\"" THEN ParseFailed
        ELSE LET key == ParseChars(t, k + 1, <<>>)
             IN  IF ~key.ok THEN ParseFailed
                 ELSE LET c == SkipWs(t, key.next)
                      IN  IF c > Len(t) \/ t[c] # ":" THEN ParseFailed
                          ELSE LET v == ParseValue(t, c + 1)
                               IN  IF ~v.ok THEN ParseFailed
                                   ELSE LET j == SkipWs(t, v.next)
                                            m == [key |-> key.value.chars, value |-> v.value]
                                        IN  IF j > Len(t) THEN ParseFailed
                                            ELSE IF t[j] = "}"
                                                 THEN Parsed(JObject(Append(acc, m)), j + 1)
                                            ELSE IF t[j] = ","
                                                 THEN ParseMembers(t, j + 1, Append(acc, m))
                                            ELSE ParseFailed

\* one value with nothing but white space around it, or a failure
ParseText(t) ==
    LET v == ParseValue(t, 1)
    IN  IF v.ok /\ SkipWs(t, v.next) = Len(t) + 1 THEN v ELSE ParseFailed

\* Array.isArray
IsArray(v) == v.type = "array"

SetMax(S) == CHOOSE x \in S : \A y \in S : y <= x

\* the properties the program reads from a mapping (types.ts lines 6-11)
FieldChars ==
    [id |-> <<"i", "d">>,
     realSignal |-> <<"r", "e", "a", "l", "S", "i", "g", "n", "a", "l">>,
     simSignal |-> <<"s", "i", "m", "S", "i", "g", "n", "a", "l">>,
     description |-> <<"d", "e", "s", "c", "r", "i", "p", "t", "i", "o", "n">>]

\* A parsed value as the program holds it: a string as its characters, an
\* array as a sequence, an object as the record of the properties the
\* program reads (of a key written twice the last value counts).
RECURSIVE JsValue(_)
JsValue(v) ==
    CASE v.type = "string" -> v.chars
      [] v.type = "array" -> [i \in 1..Len(v.items) |-> JsValue(v.items[i])]
      [] v.type = "object" ->
            LET at(f) == {k \in 1..Len(v.members) : v.members[k].key = FieldChars[f]}
            IN  [f \in {g \in DOMAIN FieldChars : at(g) # {}} |->
                    JsValue(v.members[SetMax(at(f))].value)]
      [] OTHER -> v

\* map.realSignal and the like: a property that is absent reads as undefined,
\* which the engine (lines 17-18 and 26) and the editor treat as they treat ""
Prop(m, f) == IF f \in DOMAIN m THEN m[f] ELSE <<>>

\* the mappings as the engine reads them
Rules(ms) ==
    [i \in 1..Len(ms) |-> [realSignal |-> Prop(ms[i], "realSignal"),
                           simSignal |-> Prop(ms[i], "simSignal")]]

\* the properties of a rule in the order in which constants.ts, handleAdd
\* and generateMappingsFromCode write them, which is the order JSON.stringify
\* follows
FieldOrder == <<"id", "realSignal", "simSignal", "description">>

\* QuoteJSONString without the quotes around it, for the characters of the model
RECURSIVE QuoteChars(_)
QuoteChars(s) ==
    IF s = <<>> THEN <<>>
    ELSE (CASE Head(s) = "\"" -> <<"\\", "\"">>
            [] Head(s) = "\\" -> <<"\\", "\\">>
            [] Head(s) = "\n" -> <<"\\", "n">>
            [] Head(s) = "\r" -> <<"\\", "r">>
            [] Head(s) = "\t" -> <<"\\", "t">>
            [] OTHER -> <<Head(s)>>) \o QuoteChars(Tail(s))

Quote(s) == <<"\"">> \o QuoteChars(s) \o <<"\"">>

\* the texts of a sequence with sep between them
RECURSIVE Join(_, _)
Join(parts, sep) ==
    IF parts = <<>> THEN <<>>
    ELSE IF Len(parts) = 1 THEN parts[1]
    ELSE parts[1] \o sep \o Join(Tail(parts), sep)

\* JSON.stringify(m, null, 2) of one rule inside the array: properties that
\* are undefined are left out
StringifyRule(m) ==
    LET present(f) == f \in DOMAIN m
        keys == SelectSeq(FieldOrder, present)
        member(k) == <<" ", " ", " ", " ">> \o Quote(FieldChars[keys[k]]) \o <<":", " ">>
                     \o Quote(m[keys[k]])
    IN  IF keys = <<>> THEN <<"{", "}">>
        ELSE <<"{", "\n">> \o Join([k \in 1..Len(keys) |-> member(k)], <<",", "\n">>)
             \o <<"\n", " ", " ", "}">>

\* JSON.stringify(mappings, null, 2) (App.tsx line 149)
JSONStringify(ms) ==
    IF ms = <<>> THEN <<"[", "]">>
    ELSE <<"[", "\n">>
         \o Join([i \in 1..Len(ms) |-> <<" ", " ">> \o StringifyRule(ms[i])], <<",", "\n">>)
         \o <<"\n", "]">>

\* NODE_CLI_TEMPLATE (constants.ts lines 70-186): line 88 character by
\* character, the lines before it and the lines after it as one element each
templateBefore == "constants.ts lines 70-87"
templateAfter == "constants.ts lines 89-186"
placeholder ==
    <<"_", "_", "M", "A", "P", "P", "I", "N", "G", "S", "_", "J", "S", "O", "N", "_", "_">>
declaration ==
    <<"c", "o", "n", "s", "t", " ", "E", "M", "B", "E", "D", "D", "E", "D", "_", "M", "A",
      "P", "P", "I", "N", "G", "S", " ", "=", " ">>
NODE_CLI_TEMPLATE ==
    <<templateBefore>> \o declaration \o placeholder \o <<";", "\n", templateAfter>>

\* String.prototype.replace with a string to search for and a string as the
\* replacement: the first occurrence is replaced by the expanded replacement
ReplaceFirst(str, searchValue, replaceValue) ==
    LET occ == LiteralOccurrences(searchValue, str, 1)
    IN  IF occ = <<>> THEN str
        ELSE SubSeq(str, 1, occ[1] - 1)
             \o GetSubstitution(searchValue, str, occ[1], replaceValue)
             \o SubSeq(str, occ[1] + Len(searchValue), Len(str))

\* the script that handleExportCLI builds (App.tsx lines 147-150)
scriptContent(ms) == ReplaceFirst(NODE_CLI_TEMPLATE, placeholder, JSONStringify(ms))

\* EMBEDDED_MAPPINGS as the script defines it: the value of the expression
\* that line 88 of the script holds between the declaration and the
\* semicolon, or a failure when that is no expression
EMBEDDED_MAPPINGS(script) ==
    LET from == 1 + Len(declaration) + 1
        to == Len(script) - 3
        json == ParseText(SubSeq(script, from, to))
    IN  IF json.ok THEN [ok |-> TRUE, value |-> JsValue(json.value)] ELSE [ok |-> FALSE]

----------------------------------------------------------------------------
(* App.tsx: the handlers, as functions of the state they see *)

\* the state a handler reads and, through the setters, writes; mappingsSet
\* tells that setMappings was given a new array
AppState ==
    [inputCode |-> inputCode, outputCode |-> outputCode, mode |-> mode,
     mappings |-> mappings, changeCount |-> changeCount,
     isAiProcessing |-> isAiProcessing, isReadmeOpen |-> isReadmeOpen,
     terminalLogs |-> terminalLogs, fileDialog |-> fileDialog, downloads |-> downloads,
     alerts |-> alerts, jsonError |-> jsonError, isAiLoading |-> isAiLoading,
     scanClosure |-> scanClosure, events |-> events,
     transformClosure |-> transformClosure, mappingsSet |-> FALSE]

\* A log message: the tag it starts with ("" when it starts with none), the
\* text of its template and the values interpolated into it.
LogEntry(tag, template, args) == [tag |-> tag, template |-> template, args |-> args]

\* a mode inside a template literal: the value of the enum member
ModeText(m) == IF m = HIL THEN <<"H", "I", "L">> ELSE <<"S", "I", "L">>

\* addLog (lines 33-35)
addLog(s, entry) == [s EXCEPT !.terminalLogs = Append(@, entry)]

\* the log carries the change count shown before the run
handleLocalTransformStaleCount(s, logToTerminal) ==
    LET res == performLocalTransformation(s.inputCode, s.mode, Rules(s.mappings))
        s1 == [s EXCEPT !.outputCode = res.code, !.changeCount = <<res.changes>>]
        shown == IF s.changeCount = <<>> THEN 0 ELSE s.changeCount[1] + 1
    IN  IF logToTerminal
        THEN addLog(s1, LogEntry("Success:",
                 " Transformation complete. ${result.changes} replacements made.",
                 <<NumToString(shown)>>))
        ELSE s1

\* handleLocalTransform (lines 57-64)
handleLocalTransform(s, logToTerminal) ==
    LET res == performLocalTransformation(s.inputCode, s.mode, Rules(s.mappings))
        s1 == [s EXCEPT !.outputCode = res.code, !.changeCount = <<res.changes>>]
    IN  IF logToTerminal
        THEN addLog(s1, LogEntry("Success:",
                 " Transformation complete. ${result.changes} replacements made.",
                 <<NumToString(res.changes)>>))
        ELSE s1

\* the two replace calls and the trim of transformCodeWithAI (geminiService line 61)
StripFences(text) ==
    LET fenceCapl == <<backtick, backtick, backtick, "c", "a", "p", "l">>
        fence == <<backtick, backtick, backtick>>
        t1 == LiteralReplace(text, LiteralOccurrences(fenceCapl, text, 1), Len(fenceCapl), <<>>, 1)
    IN  Trim(LiteralReplace(t1, LiteralOccurrences(fence, t1, 1), Len(fence), <<>>, 1))

\* transformCodeWithAI (geminiService lines 30-67) for an answer of the
\* service: the value it resolves to, or <<>> when it throws
transformCodeWithAI(c, answer) ==
    IF Trim(c) = <<>> THEN << <<>> >>
    ELSE IF answer.ok THEN <<StripFences(answer.text)>>
    ELSE <<>>

\* handleAiTransform (lines 66-80) up to the await
aiTransformCalled(s) ==
    addLog([s EXCEPT !.isAiProcessing = TRUE, !.transformClosure = <<s.inputCode>>],
           LogEntry("Info:", " Starting AI Code Transformation...", <<>>))

\* a failed transformation is logged as a success
aiTransformReturnedAlwaysSuccess(s, answer) ==
    LET s1 == addLog(s, LogEntry("Success:", " AI Transformation complete.", <<>>))
    IN  [s1 EXCEPT !.isAiProcessing = FALSE, !.transformClosure = <<>>]

\* handleAiTransform (lines 66-80) after the await
aiTransformReturned(s, answer) ==
    LET transformed == transformCodeWithAI(s.transformClosure[1], answer)
        s1 == IF transformed # <<>>
              THEN addLog([s EXCEPT !.outputCode = transformed[1], !.changeCount = <<>>],
                          LogEntry("Success:", " AI Transformation complete.", <<>>))
              ELSE [addLog(s, LogEntry("Error:", " AI Transformation failed.", <<>>))
                       EXCEPT !.alerts = Append(@, "AI Transformation failed. Check console.")]
    IN  [s1 EXCEPT !.isAiProcessing = FALSE, !.transformClosure = <<>>]

\* handleDownload (lines 127-143)
handleDownload(s) ==
    IF s.outputCode = <<>>
    THEN addLog(s, LogEntry("Error:", " No output code to download.", <<>>))
    ELSE LET filename == IF s.mode = SIL THEN "transformed_SIL.can" ELSE "transformed_HIL.can"
         IN  addLog([s EXCEPT !.downloads =
                        Append(@, [filename |-> filename, content |-> s.outputCode])],
                    LogEntry("Success:", " Downloaded '${filename}'.", <<>>))

\* handleExportCLI (lines 145-162): the script is the template with the
\* stringified mappings put in
handleExportCLI(s) ==
    addLog([s EXCEPT !.downloads =
               Append(@, [filename |-> "capl-transformer.js",
                          content |-> scriptContent(s.mappings)])],
           LogEntry("Success:", " Exported 'capl-transformer.js' for CI/CD usage.", <<>>))

\* handleClear (lines 164-167)
handleClear(s) ==
    addLog([s EXCEPT !.inputCode = <<>>], LogEntry("Info:", " Source code cleared.", <<>>))

\* the swap without the check of lines 170-173
handleSwapUnguarded(s) ==
    LET newMode == OppositeMode(s.mode)
    IN  addLog([s EXCEPT !.inputCode = s.outputCode, !.outputCode = <<>>,
                         !.mode = newMode],
               LogEntry("Success:",
                   " Swapped Output to Source. Switched mode to ${newMode}.",
                   <<ModeText(newMode)>>))

\* handleSwap (lines 169-179)
handleSwap(s) ==
    IF s.outputCode = <<>>
    THEN addLog(s, LogEntry("Error:", " No output code available to swap.", <<>>))
    ELSE LET newMode == OppositeMode(s.mode)
         IN  addLog([s EXCEPT !.inputCode = s.outputCode, !.outputCode = <<>>,
                              !.mode = newMode],
                    LogEntry("Success:",
                        " Swapped Output to Source. Switched mode to ${newMode}.",
                        <<ModeText(newMode)>>))

cmdHelp == <<"h", "e", "l", "p">>
cmdQuestion == <<"?">>
cmdUpload == <<"u", "p", "l", "o", "a", "d">>
cmdLoad == <<"l", "o", "a", "d">>
cmdRun == <<"r", "u", "n">>
cmdTransform == <<"t", "r", "a", "n", "s", "f", "o", "r", "m">>
cmdDownload == <<"d", "o", "w", "n", "l", "o", "a", "d">>
cmdSave == <<"s", "a", "v", "e">>
cmdExport == <<"e", "x", "p", "o", "r", "t">>
cmdBatch == <<"b", "a", "t", "c", "h">>
cmdCli == <<"c", "l", "i">>
cmdSwap == <<"s", "w", "a", "p">>
cmdReplace == <<"r", "e", "p", "l", "a", "c", "e">>
cmdClear == <<"c", "l", "e", "a", "r">>
cmdMode == <<"m", "o", "d", "e">>
cmdReadme == <<"r", "e", "a", "d", "m", "e">>
cmdDocs == <<"d", "o", "c", "s">>
cmdMan == <<"m", "a", "n">>

txtMap == <<"m", "a", "p">>
txtRule == <<"r", "u", "l", "e">>
txtJson == <<"j", "s", "o", "n">>
argHil == <<"h", "i", "l">>
argH == <<"h">>
argSil == <<"s", "i", "l">>
argS == <<"s">>

\* lines 185-196: the line is trimmed and split at its first space into a
\* lower-case command and a trimmed argument
ParseCommand(cmdStr) ==
    LET trimmed == Trim(cmdStr)
        firstSpaceIndex == IndexOf(trimmed, " ")
    IN  IF firstSpaceIndex = 0
        THEN [cmd |-> ToLowerCase(trimmed), arg |-> <<>>]
        ELSE [cmd |-> ToLowerCase(SubSeq(trimmed, 1, firstSpaceIndex - 1)),
              arg |-> Trim(SubSeq(trimmed, firstSpaceIndex + 1, Len(trimmed)))]

\* case 'help' (lines 199-202)
commandHelp(s) == addLog(s, LogEntry("", "Available commands: ...", <<>>))

\* case 'upload' (lines 203-221)
commandUpload(s, arg) ==
    IF arg # <<>> /\ (Includes(arg, txtMap) \/ Includes(arg, txtRule) \/ Includes(arg, txtJson))
    THEN addLog([s EXCEPT !.fileDialog = "mapping"],
                LogEntry("Action:", " Opening mapping file selector (.json)...", <<>>))
    ELSE LET cleanArg == StripQuotes(arg)
             s1 == IF arg # <<>> /\ ~Includes(cleanArg, txtMap)
                   THEN addLog(s, LogEntry("Info:",
                            " Request to load code file '${cleanArg}' received.", <<cleanArg>>))
                   ELSE s
             s2 == IF arg # <<>>
                   THEN addLog(s1, LogEntry("Info:",
                            " Security restriction: Browser cannot access local paths automatically.",
                            <<>>))
                   ELSE s1
         IN  addLog([s2 EXCEPT !.fileDialog = "code"],
                    LogEntry("Action:", " Opening source code file selector...", <<>>))

\* the argument compared as it was typed
commandModeCaseSensitive(s, arg) ==
    IF arg = argHil \/ arg = argH
    THEN addLog([s EXCEPT !.mode = HIL],
                LogEntry("Info:", " Mode set to HIL (SysVar -> Real)", <<>>))
    ELSE IF arg = argSil \/ arg = argS
    THEN addLog([s EXCEPT !.mode = SIL],
                LogEntry("Info:", " Mode set to SIL (Real -> SysVar)", <<>>))
    ELSE addLog(s, LogEntry("Error:", " Usage 'mode hil' or 'mode sil'", <<>>))

\* case 'mode' (lines 242-252)
commandMode(s, arg) ==
    IF ToLowerCase(arg) = argHil \/ ToLowerCase(arg) = argH
    THEN addLog([s EXCEPT !.mode = HIL],
                LogEntry("Info:", " Mode set to HIL (SysVar -> Real)", <<>>))
    ELSE IF ToLowerCase(arg) = argSil \/ ToLowerCase(arg) = argS
    THEN addLog([s EXCEPT !.mode = SIL],
                LogEntry("Info:", " Mode set to SIL (Real -> SysVar)", <<>>))
    ELSE addLog(s, LogEntry("Error:", " Usage 'mode hil' or 'mode sil'", <<>>))

\* case 'readme' (lines 253-258)
commandDocs(s) ==
    addLog([s EXCEPT !.isReadmeOpen = TRUE],
           LogEntry("Action:", " Opened documentation.", <<>>))

\* an unknown command answered with the help text
commandUnknownShowsHelp(s, cmd) == commandHelp(s)

\* default (lines 259-260)
commandUnknown(s, cmd) ==
    addLog(s, LogEntry("Error:", " Unknown command '${cmd}'. Type 'help' for list.", <<cmd>>))

\* handleCommand (lines 182-262)
handleCommand(s0, cmdStr) ==
    LET s == addLog(s0, LogEntry(">", " ${cmdStr}", <<cmdStr>>))
        cmd == ParseCommand(cmdStr).cmd
        arg == ParseCommand(cmdStr).arg
    IN  CASE cmd \in {cmdHelp, cmdQuestion} -> commandHelp(s)
          [] cmd \in {cmdUpload, cmdLoad} -> commandUpload(s, arg)
          [] cmd \in {cmdRun, cmdTransform} -> handleLocalTransform(s, TRUE)
          [] cmd \in {cmdDownload, cmdSave} -> handleDownload(s)
          [] cmd \in {cmdExport, cmdBatch, cmdCli} -> handleExportCLI(s)
          [] cmd \in {cmdSwap, cmdReplace} -> handleSwap(s)
          [] cmd = cmdClear -> handleClear(s)
          [] cmd = cmdMode -> commandMode(s, arg)
          [] cmd \in {cmdReadme, cmdDocs, cmdMan} -> commandDocs(s)
          [] OTHER -> commandUnknown(s, cmd)

----------------------------------------------------------------------------
(* The imports of a mapping file and of the JSON editor *)

payloadObject == <<"{", "\"", "i", "d", "\"", ":", " ", "\"", "1", "\"", "}">>
payloadBroken == <<"[", "{", "\"", "i", "d", "\"", ":", " ", "\"", "1", "\"", ",", "]">>
payloadNull == <<"n", "u", "l", "l">>
payloadEmpty == <<"[", "]">>
\* two well-formed rules
payloadRules == <<"[", "\n", " ", "{", "\"", "i", "d", "\"", ":", " ", "\"", "4", "\"",
    ",", " ", "\"", "r", "e", "a", "l", "S", "i", "g", "n", "a", "l", "\"", ":", " ", "\"",
    "$", "E", "n", "g", "i", "n", "e", "S", "p", "e", "e", "d", "\"", ",", " ", "\"", "s",
    "i", "m", "S", "i", "g", "n", "a", "l", "\"", ":", " ", "\"", "s", "y", "s", "v", "a",
    "r", ":", ":", "S", "p", "e", "e", "d", "\"", "}", ",", "\n", " ", "{", "\"", "i", "d",
    "\"", ":", " ", "\"", "5", "\"", ",", " ", "\"", "r", "e", "a", "l", "S", "i", "g",
    "n", "a", "l", "\"", ":", " ", "\"", "$", "$", "A", "\"", ",", " ", "\"", "s", "i",
    "m", "S", "i", "g", "n", "a", "l", "\"", ":", " ", "\"", "B", "\"", "}", "\n", "]">>
\* a record without realSignal and a second record with the id of the first
payloadMalformed == <<"[", "{", "\"", "i", "d", "\"", ":", " ", "\"", "7", "\"", ",", " ",
    "\"", "s", "i", "m", "S", "i", "g", "n", "a", "l", "\"", ":", " ", "\"", "s", "y", "s",
    "v", "a", "r", ":", ":", "S", "p", "e", "e", "d", "\"", "}", ",", " ", "{", "\"", "i",
    "d", "\"", ":", " ", "\"", "7", "\"", ",", " ", "\"", "r", "e", "a", "l", "S", "i",
    "g", "n", "a", "l", "\"", ":", " ", "\"", "$", "A", "\"", ",", " ", "\"", "s", "i",
    "m", "S", "i", "g", "n", "a", "l", "\"", ":", " ", "\"", "B", "\"", "}", "]">>

\* one well-formed rule whose id is 2^53
payloadLargeId == <<"[", "{", "\"", "i", "d", "\"", ":", " ", "\"", "9", "0", "0", "7",
    "1", "9", "9", "2", "5", "4", "7", "4", "0", "9", "9", "2", "\"", ",", " ", "\"", "r",
    "e", "a", "l", "S", "i", "g", "n", "a", "l", "\"", ":", " ", "\"", "$", "A", "\"", ",",
    " ", "\"", "s", "i", "m", "S", "i", "g", "n", "a", "l", "\"", ":", " ", "\"", "B",
    "\"", "}", "]">>

\* the texts of the files chosen for import and of the JSON editor
Payloads == {payloadObject, payloadBroken, payloadNull, payloadEmpty, payloadRules,
             payloadMalformed, payloadLargeId}

fileName == <<"r", "u", "l", "e", "s", ".", "j", "s", "o", "n">>

MappingFiles == {[name |-> fileName, content |-> p] : p \in Payloads}

\* JSON.parse of the texts above, worked out once
ParsedPayloads == [p \in Payloads |-> ParseText(p)]

\* JSON.parse: the value, or an exception
JSONParse(t) == IF t \in Payloads THEN ParsedPayloads[t] ELSE ParseText(t)

\* handleMappingFileUpload (App.tsx lines 105-125), once the file is read
handleMappingFileUpload(s, file) ==
    LET json == JSONParse(file.content)
    IN  IF ~json.ok
        THEN addLog(s, LogEntry("Error:", " Failed to parse JSON file.", <<>>))
        ELSE IF IsArray(json.value)
        THEN addLog([s EXCEPT !.mappings = JsValue(json.value), !.mappingsSet = TRUE],
                    LogEntry("Success:", " Loaded ${json.length} mappings from '${file.name}'.",
                             <<NumToString(Len(json.value.items)), file.name>>))
        ELSE addLog(s, LogEntry("Error:", " Invalid JSON format. Expected an array.", <<>>))

\* handleFileUpload of the editor (MappingEditor.tsx lines 89-108), once the
\* file is read
editorHandleFileUpload(s, file) ==
    LET json == JSONParse(file.content)
    IN  IF ~json.ok
        THEN [s EXCEPT !.alerts = Append(@, "Failed to parse JSON file.")]
        ELSE IF IsArray(json.value)
        THEN [s EXCEPT !.mappings = JsValue(json.value), !.mappingsSet = TRUE]
        ELSE [s EXCEPT !.alerts = Append(@, "Invalid JSON format. Expected an array.")]

\* the commit without the check of the root: a value that is no array is
\* stored as the only element
handleJsonChangeAnyRoot(s, val) ==
    LET parsed == JSONParse(val)
    IN  IF ~parsed.ok
        THEN [s EXCEPT !.jsonError = <<"SyntaxError">>]
        ELSE [s EXCEPT !.mappings = IF IsArray(parsed.value) THEN JsValue(parsed.value)
                                    ELSE <<JsValue(parsed.value)>>,
                       !.mappingsSet = TRUE, !.jsonError = <<>>]

\* handleJsonChange (MappingEditor.tsx lines 51-64)
handleJsonChange(s, val) ==
    LET parsed == JSONParse(val)
    IN  IF ~parsed.ok
        THEN [s EXCEPT !.jsonError = <<"SyntaxError">>]
        ELSE IF IsArray(parsed.value)
        THEN [s EXCEPT !.mappings = JsValue(parsed.value), !.mappingsSet = TRUE,
                       !.jsonError = <<>>]
        ELSE [s EXCEPT !.jsonError = <<"Root must be an array">>]

----------------------------------------------------------------------------
(* MappingEditor.tsx: the edits of the Mapping Store *)

DigitOf(c) == (CHOOSE k \in 1..Len(Digits) : Digits[k] = c) - 1

\* A Number that is an integer is written as its sign and its decimal digits
\* without leading zeros: the ids are strings of any length, and the Numbers
\* made of them are IEEE 754 doubles, which hold every integer up to 2^53 only.
zero == <<"0">>
two53 == <<"9", "0", "0", "7", "1", "9", "9", "2", "5", "4", "7", "4", "0", "9", "9", "2">>

RECURSIVE StripZeros(_)
StripZeros(ds) ==
    IF Len(ds) > 1 /\ ds[1] = "0" THEN StripZeros(Tail(ds)) ELSE ds

\* a < b for two naturals in digits
Less(a, b) ==
    \/ Len(a) < Len(b)
    \/ /\ Len(a) = Len(b)
       /\ \E i \in 1..Len(a) :
             /\ SubSeq(a, 1, i - 1) = SubSeq(b, 1, i - 1)
             /\ DigitOf(a[i]) < DigitOf(b[i])

\* a + 1 and a - 1 (for a above 0) in exact arithmetic
RECURSIVE Inc(_)
Inc(ds) ==
    IF ds = <<>> THEN <<"1">>
    ELSE IF ds[Len(ds)] = "9" THEN Append(Inc(SubSeq(ds, 1, Len(ds) - 1)), "0")
    ELSE Append(SubSeq(ds, 1, Len(ds) - 1), Digits[DigitOf(ds[Len(ds)]) + 2])

RECURSIVE DecDigits(_)
DecDigits(ds) ==
    IF ds[Len(ds)] = "0" THEN Append(DecDigits(SubSeq(ds, 1, Len(ds) - 1)), "9")
    ELSE Append(SubSeq(ds, 1, Len(ds) - 1), Digits[DigitOf(ds[Len(ds)])])

Dec(ds) == StripZeros(DecDigits(ds))

Mod4(ds) ==
    LET n == Len(ds)
    IN  ((IF n > 1 THEN 10 * DigitOf(ds[n - 1]) ELSE 0) + DigitOf(ds[n])) % 4

\* the double nearest to a natural, ties to the even significand: exact up to
\* 2^53 and, from there to 2^54, the nearest even number, the multiple of 4
\* on a tie. (From 2^54 on the doubles are further apart; the ids of the
\* inputs have at most 16 digits and stay below.)
ToDouble(ds) ==
    IF ~Less(two53, ds) \/ DigitOf(ds[Len(ds)]) % 2 = 0 THEN ds
    ELSE IF Mod4(Inc(ds)) = 0 THEN Inc(ds) ELSE Dec(ds)

\* parseInt(s, 10): <<n>> for the longest run of digits, with its sign, that
\* follows the leading white space; <<>> for NaN
ParseInt(s) ==
    LET u == TrimStart(s)
        signed == u # <<>> /\ u[1] \in {"+", "-"}
        body == IF signed THEN Tail(u) ELSE u
        stop == SetMin({j \in 1..(Len(body) + 1) :
                          j = Len(body) + 1 \/ body[j] \notin DigitChars})
    IN  IF stop = 1 THEN <<>>
        ELSE <<[neg |-> signed /\ u[1] = "-",
                digits |-> ToDouble(StripZeros(SubSeq(body, 1, stop - 1)))]>>

\* the reduce of lines 29-32 and 71-74 from element k on: the largest id that
\* is a number above max, or max
RECURSIVE ReduceMax(_, _, _)
ReduceMax(list, max, k) ==
    IF k > Len(list) THEN max
    ELSE LET num == ParseInt(Prop(list[k], "id"))
         IN  IF num # <<>> /\ ~num[1].neg /\ Less(max, num[1].digits)
             THEN ReduceMax(list, num[1].digits, k + 1)
             ELSE ReduceMax(list, max, k + 1)

MaxNumericId(list) == ReduceMax(list, zero, 1)

\* maxId + 1 and currentMaxId++ in doubles
PlusOne(n) == ToDouble(Inc(n))

\* getNextId (lines 28-34); toString writes every digit of a Number below 2^54
getNextId(list) == PlusOne(MaxNumericId(list))

\* handleAdd (lines 36-41)
handleAdd(s) ==
    [s EXCEPT !.mappings = Append(s.mappings,
                               [id |-> getNextId(s.mappings), realSignal |-> <<>>,
                                simSignal |-> <<>>, description |-> <<>>]),
              !.mappingsSet = TRUE]

\* handleRemove (lines 43-45)
handleRemove(s, id) ==
    [s EXCEPT !.mappings = SelectSeq(s.mappings, LAMBDA m : Prop(m, "id") # id),
              !.mappingsSet = TRUE]

\* { ...m, [field]: value }
WithField(m, field, value) ==
    [f \in DOMAIN m \cup {field} |-> IF f = field THEN value ELSE m[f]]

\* handleChange (lines 47-49)
handleChange(s, id, field, value) ==
    [s EXCEPT !.mappings = [i \in 1..Len(s.mappings) |->
                               IF Prop(s.mappings[i], "id") = id
                               THEN WithField(s.mappings[i], field, value)
                               ELSE s.mappings[i]],
              !.mappingsSet = TRUE]

\* the preset select (lines 153-157); choosing the preset whose array the
\* store already is changes no state
selectPreset(s, key) ==
    IF key \in DOMAIN MAPPING_PRESETS
    THEN [s EXCEPT !.mappings = MAPPING_PRESETS[key],
                   !.mappingsSet = (MAPPING_PRESETS[key] # s.mappings)]
    ELSE s

autoGenerated == <<"A", "u", "t", "o", "-", "g", "e", "n", "e", "r", "a", "t", "e", "d">>

\* generateMappingsFromCode (geminiService lines 72-123) for a reply of the
\* service: no call for a blank code, [] when the call or the parse fails,
\* else the items with ids made from the time (written 0) and the index
generateMappingsFromCode(c, reply) ==
    IF Trim(c) = <<>> \/ ~reply.ok THEN <<>>
    ELSE [i \in 1..Len(reply.items) |->
            [id |-> <<"g", "e", "n", "_", "0", "_">> \o NumToString(i - 1),
             realSignal |-> reply.items[i].realSignal,
             simSignal |-> reply.items[i].simSignal,
             description |-> IF Prop(reply.items[i], "description") = <<>>
                             THEN autoGenerated ELSE reply.items[i].description]]

\* the forEach of lines 77-83 from suggestion k on
RECURSIVE MergeFrom(_, _, _, _)
MergeFrom(newMappings, currentMaxId, suggestions, k) ==
    IF k > Len(suggestions) THEN newMappings
    ELSE IF \E i \in 1..Len(newMappings) :
                Prop(newMappings[i], "realSignal") = suggestions[k].realSignal
         THEN MergeFrom(newMappings, currentMaxId, suggestions, k + 1)
         ELSE MergeFrom(Append(newMappings,
                            WithField(suggestions[k], "id", PlusOne(currentMaxId))),
                        PlusOne(currentMaxId), suggestions, k + 1)

\* handleAiSuggest (lines 66-87) up to the await: the call is made with the
\* mappings and the currentCode of the render that the handler belongs to
aiSuggestCalled(s) ==
    [s EXCEPT !.isAiLoading = TRUE,
              !.scanClosure = <<[mappings |-> s.mappings, currentCode |-> s.inputCode]>>]

\* handleAiSuggest (lines 66-87) after the await
aiSuggestReturned(s, reply) ==
    LET closure == s.scanClosure[1]
        suggestions == generateMappingsFromCode(closure.currentCode, reply)
        s1 == IF Len(suggestions) > 0
              THEN [s EXCEPT !.mappings = MergeFrom(closure.mappings,
                                              MaxNumericId(closure.mappings), suggestions, 1),
                             !.mappingsSet = TRUE]
              ELSE s
    IN  [s1 EXCEPT !.isAiLoading = FALSE, !.scanClosure = <<>>]

----------------------------------------------------------------------------
(* The App as a state machine: one action per event *)

MaxLogs == 4
MaxImportLogs == 1
MaxEvents == 3

lineFoobar == <<"f", "o", "o", "b", "a", "r">>
lineFooBarArg == <<"F", "o", "o", "B", "a", "r", " ", "n", "o", "w">>
lineModeHil == <<"m", "o", "d", "e", " ", "h", "i", "l">>
lineModeH == <<" ", "m", "o", "d", "e", " ", "H", " ">>
lineModeSil == <<"M", "O", "D", "E", " ", "S", "i", "l">>
lineModeS == <<"m", "o", "d", "e", " ", " ", " ", "s">>
lineModeXyz == <<"m", "o", "d", "e", " ", "x", "y", "z">>
lineMode == <<"m", "o", "d", "e">>
lineRun == <<"r", "u", "n">>
lineSwap == <<"s", "w", "a", "p">>
lineClear == <<"c", "l", "e", "a", "r">>
lineDownload == <<"d", "o", "w", "n", "l", "o", "a", "d">>
lineHelp == <<"h", "e", "l", "p">>
lineExport == <<"e", "x", "p", "o", "r", "t">>
lineUploadMapping == <<"u", "p", "l", "o", "a", "d", " ", "m", "a", "p", "p", "i", "n", "g">>
lineUploadFile == <<"l", "o", "a", "d", " ", "\"", "a", ".", "c", "a", "n", "\"">>
lineDocs == <<"d", "o", "c", "s">>
lineReplace == <<"r", "e", "p", "l", "a", "c", "e">>
lineSave == <<"S", "a", "v", "e">>
lineTransform == <<"t", "r", "a", "n", "s", "f", "o", "r", "m">>

\* the lines typed into the terminal
CommandLines == {lineFoobar, lineFooBarArg, lineModeHil, lineModeH, lineModeSil, lineModeS,
                 lineModeXyz, lineMode, lineRun, lineSwap, lineClear, lineDownload,
                 lineHelp, lineExport, lineUploadMapping, lineUploadFile, lineDocs,
                 lineReplace, lineSave, lineTransform}

txtTyped == <<"$", "E", "n", "g", "i", "n", "e", "S", "p", "e", "e", "d", " ", "=", " ", "s", "y", "s", "v", "a", "r", ":", ":", "E", "n", "g", "i", "n", "e", ":", ":", "S", "p", "e", "e", "d", ";">>

\* the texts typed into the source editor
TypedTexts == {txtTyped}

\* the state of the first render: the effect of lines 38-43 is due
Init ==
    /\ inputCode = DEFAULT_CAPL_CODE
    /\ outputCode = <<>>
    /\ mode = INITIAL_MODE
    /\ mappings = DEFAULT_MAPPINGS
    /\ changeCount = <<>>
    /\ isAiProcessing = FALSE
    /\ isReadmeOpen = FALSE
    /\ terminalLogs = <<>>
    /\ effectPending = TRUE
    /\ fileDialog = "none"
    /\ alerts = <<>>
    /\ jsonError = <<>>
    /\ isAiLoading = FALSE
    /\ scanClosure = <<>>
    /\ events = 0
    /\ transformClosure = <<>>
    /\ cli = NoRun
    /\ downloads = <<>>
    /\ code = <<>>
    /\ callMode = SIL
    /\ callMappings = <<>>
    /\ args0 = Call(<<>>, SIL, <<>>)
    /\ sortedMappings = <<>>
    /\ transformedCode = <<>>
    /\ changesCount = 0
    /\ idx = 0
    /\ pc = "idle"
    /\ result = NoResult
    /\ back = NoResult
    /\ passes = 0
    /\ applied = <<>>
    /\ lastPass = NoPass
    /\ occSum = 0

\* the auto-run effect (lines 38-43), run with the state of the render it follows
autoRunEffect(s) == IF ~s.isAiProcessing THEN handleLocalTransform(s, FALSE) ELSE s

\* the effect's dependencies (line 43) differ from those of the render before
DepsChanged(s) == s.inputCode # inputCode \/ s.mode # mode \/ s.mappingsSet

\* the state s left by a handler is rendered
Commit(s) ==
    /\ inputCode' = s.inputCode
    /\ outputCode' = s.outputCode
    /\ mode' = s.mode
    /\ mappings' = s.mappings
    /\ changeCount' = s.changeCount
    /\ isAiProcessing' = s.isAiProcessing
    /\ isReadmeOpen' = s.isReadmeOpen
    /\ terminalLogs' = s.terminalLogs
    /\ fileDialog' = s.fileDialog
    /\ downloads' = s.downloads
    /\ alerts' = s.alerts
    /\ jsonError' = s.jsonError
    /\ isAiLoading' = s.isAiLoading
    /\ scanClosure' = s.scanClosure
    /\ events' = s.events
    /\ transformClosure' = s.transformClosure
    /\ effectPending' = FALSE
    /\ UNCHANGED <<engineVars, historyVars, cli>>

\* The state s left by a handler is rendered and, when a dependency changed,
\* the effect runs on it before the next event is handled.
Render(s) ==
    \E handled \in {s} :
        \E rendered \in {IF DepsChanged(handled) THEN autoRunEffect(handled) ELSE handled} :
            Commit(rendered)

\* the effect after the first render
AutoRun ==
    /\ effectPending
    /\ Commit(autoRunEffect(AppState))

\* Enter in the terminal (Terminal.tsx lines 24-30) hands the trimmed line,
\* unless it is empty, to handleCommand
SubmitLine(input) ==
    /\ ~effectPending
    /\ Len(terminalLogs) < MaxLogs
    /\ Trim(input) # <<>>
    /\ Render(handleCommand(AppState, Trim(input)))

\* the HIL and SIL buttons (lines 334 and 344)
ClickMode(m) ==
    /\ ~effectPending
    /\ Len(terminalLogs) < MaxLogs
    /\ Render(addLog([AppState EXCEPT !.mode = m],
                     LogEntry("Info:", " Mode changed to ${mode}", <<ModeText(m)>>)))

\* typing in the source editor (line 392)
TypeSource(text) ==
    /\ ~effectPending
    /\ Render([AppState EXCEPT !.inputCode = text])

\* the state s left by a handler of the editor, counted
Handled(s) == [s EXCEPT !.events = @ + 1]

\* the mapping file chosen in the selector of the header has been read
MappingFileLoaded(file) ==
    /\ ~effectPending
    /\ Len(terminalLogs) < MaxImportLogs
    /\ Render(handleMappingFileUpload(AppState, file))

\* the file chosen in the selector of the editor has been read
EditorFileLoaded(file) ==
    /\ ~effectPending
    /\ events < MaxEvents
    /\ Render(Handled(editorHandleFileUpload(AppState, file)))

\* the text of the JSON view has been edited to val
JsonEdited(val) ==
    /\ ~effectPending
    /\ events < MaxEvents
    /\ Render(Handled(handleJsonChange(AppState, val)))

Next ==
    \/ AutoRun
    \/ \E input \in CommandLines : SubmitLine(input)
    \/ \E m \in TestMode : ClickMode(m)
    \/ \E text \in TypedTexts : TypeSource(text)

Spec == Init /\ [][Next]_vars

\* a preset is chosen in the select of the editor
PresetSelected(key) ==
    /\ ~effectPending
    /\ events < MaxEvents
    /\ Render(Handled(selectPreset(AppState, key)))

\* the Add button of the list view
AddClicked ==
    /\ ~effectPending
    /\ events < MaxEvents
    /\ Render(Handled(handleAdd(AppState)))

\* the ids of the rules shown in the list view
ShownIds == {Prop(mappings[i], "id") : i \in 1..Len(mappings)}

\* the Remove button of the rule shown with this id
RemoveClicked(id) ==
    /\ ~effectPending
    /\ events < MaxEvents
    /\ id \in ShownIds
    /\ Render(Handled(handleRemove(AppState, id)))

sigTyped == <<"$", "N", "e", "w">>

\* the fields typed into, and what is typed
EditedFields == {"realSignal", "simSignal"}
EditValues == {sigTyped}

\* a value is typed into a field of the rule shown with this id
FieldEdited(id, field, value) ==
    /\ ~effectPending
    /\ events < MaxEvents
    /\ id \in ShownIds
    /\ Render(Handled(handleChange(AppState, id, field, value)))

\* the replies of the suggestion service: a failure, and three items of which
\* the first names a signal of the default rules and the third repeats the
\* signal of the second
replyFailed == [ok |-> FALSE, items |-> <<>>]
replyItems ==
    [ok |-> TRUE,
     items |-> << [realSignal |-> sigEngineSpeed, simSignal |-> sigSysvarSpeed,
                   description |-> descSpeed],
                  [realSignal |-> sigTyped, simSignal |-> sigSysvarTorque],
                  [realSignal |-> sigTyped, simSignal |-> sigInjectFrame,
                   description |-> descOutput] >>]
AiReplies == {replyFailed, replyItems}

\* the AI Scan button (line 265)
AiScanClicked ==
    /\ ~effectPending
    /\ ~isAiLoading
    /\ events < MaxEvents
    /\ Render(Handled(aiSuggestCalled(AppState)))

\* the call of generateMappingsFromCode has returned
AiScanReturned(reply) ==
    /\ ~effectPending
    /\ isAiLoading
    /\ events < MaxEvents
    /\ Render(Handled(aiSuggestReturned(AppState, reply)))

answerFailed == [ok |-> FALSE, text |-> <<>>]
answerFenced ==
    [ok |-> TRUE,
     text |-> <<backtick, backtick, backtick, "c", "a", "p", "l", "\n", "x", " ", "=",
                " ", "1", ";", "\n", backtick, backtick, backtick, "\n">>]
AiAnswers == {answerFailed, answerFenced}

\* the Smart AI Refactor button (line 455)
AiTransformClicked ==
    /\ ~effectPending
    /\ ~isAiProcessing
    /\ Len(terminalLogs) < MaxLogs
    /\ Render(aiTransformCalled(AppState))

\* the call of transformCodeWithAI has returned or thrown
AiTransformReturned(answer) ==
    /\ ~effectPending
    /\ isAiProcessing
    /\ Render(aiTransformReturned(AppState, answer))

\* the Export CLI button (line 313)
ExportClicked ==
    /\ ~effectPending
    /\ Len(terminalLogs) < MaxImportLogs
    /\ Render(handleExportCLI(AppState))

\* the three ways to import a mapping payload, and the export
NextImport ==
    \/ AutoRun
    \/ ExportClicked
    \/ \E file \in MappingFiles : MappingFileLoaded(file)
    \/ \E file \in MappingFiles : EditorFileLoaded(file)
    \/ \E val \in Payloads : JsonEdited(val)

SpecImport == Init /\ [][NextImport]_vars

\* the AI transformation among the deterministic commands
AiLines == {lineRun, lineSwap}
NextAi ==
    \/ AutoRun
    \/ AiTransformClicked
    \/ \E answer \in AiAnswers : AiTransformReturned(answer)
    \/ \E input \in AiLines : SubmitLine(input)
    \/ \E m \in TestMode : ClickMode(m)
    \/ \E text \in TypedTexts : TypeSource(text)

SpecAi == Init /\ [][NextAi]_vars

\* the state after the first effect has run and the line txtTyped has been
\* typed over the default source text
InitStore ==
    /\ inputCode = txtTyped
    /\ outputCode = performLocalTransformation(txtTyped, INITIAL_MODE, Rules(DEFAULT_MAPPINGS)).code
    /\ mode = INITIAL_MODE
    /\ mappings = DEFAULT_MAPPINGS
    /\ changeCount =
           <<performLocalTransformation(txtTyped, INITIAL_MODE, Rules(DEFAULT_MAPPINGS)).changes>>
    /\ isAiProcessing = FALSE
    /\ isReadmeOpen = FALSE
    /\ terminalLogs = <<>>
    /\ effectPending = FALSE
    /\ fileDialog = "none"
    /\ downloads = <<>>
    /\ alerts = <<>>
    /\ jsonError = <<>>
    /\ isAiLoading = FALSE
    /\ scanClosure = <<>>
    /\ events = 0
    /\ transformClosure = <<>>
    /\ cli = NoRun
    /\ code = <<>>
    /\ callMode = SIL
    /\ callMappings = <<>>
    /\ args0 = Call(<<>>, SIL, <<>>)
    /\ sortedMappings = <<>>
    /\ transformedCode = <<>>
    /\ changesCount = 0
    /\ idx = 0
    /\ pc = "idle"
    /\ result = NoResult
    /\ back = NoResult
    /\ passes = 0
    /\ applied = <<>>
    /\ lastPass = NoPass
    /\ occSum = 0

\* the events of the editor that write the Mapping Store
NextStore ==
    \/ \E val \in Payloads : JsonEdited(val)
    \/ \E key \in DOMAIN MAPPING_PRESETS : PresetSelected(key)
    \/ AddClicked
    \/ \E id \in ShownIds : RemoveClicked(id)
    \/ \E id \in ShownIds, field \in EditedFields, value \in EditValues :
          FieldEdited(id, field, value)
    \/ AiScanClicked
    \/ \E reply \in AiReplies : AiScanReturned(reply)

SpecStore == InitStore /\ [][NextStore]_vars

----------------------------------------------------------------------------
(* The exported batch program (constants.ts lines 70-186): one run of it *)

StartsWith(s, prefix) == StartsWithAt(s, 1, prefix)

ToUpperChar(c) ==
    IF \E k \in 1..26 : LowerCase[k] = c
    THEN UpperCase[CHOOSE k \in 1..26 : LowerCase[k] = c] ELSE c

\* String.prototype.toUpperCase
ToUpperCase(s) == [i \in 1..Len(s) |-> ToUpperChar(s[i])]

\* String.prototype.split with a separator of one character
RECURSIVE Split(_, _)
Split(s, sep) ==
    LET at == {i \in 1..Len(s) : s[i] = sep}
    IN  IF at = {} THEN <<s>>
        ELSE <<SubSeq(s, 1, SetMin(at) - 1)>>
             \o Split(SubSeq(s, SetMin(at) + 1, Len(s)), sep)

\* args.find(a => a.startsWith(prefix)): <<the argument>>, or <<>> for undefined
Find(args, prefix) ==
    LET at == {i \in 1..Len(args) : StartsWith(args[i], prefix)}
    IN  IF at = {} THEN <<>> ELSE <<args[SetMin(at)]>>

prefixMode == <<"-", "-", "m", "o", "d", "e", "=">>
prefixMapping == <<"-", "-", "m", "a", "p", "p", "i", "n", "g", "=">>
modeSIL == <<"S", "I", "L">>

\* A template literal gives the script the characters after its escapes are
\* resolved, and a string literal of the script gives the program the
\* characters after its own: a backslash stands for the character after it
\* (the texts below hold no other escape).
RECURSIVE Cooked(_)
Cooked(raw) ==
    IF raw = <<>> THEN <<>>
    ELSE IF Head(raw) = "\\" /\ Len(raw) >= 2
         THEN <<raw[2]>> \o Cooked(SubSeq(raw, 3, Len(raw)))
         ELSE <<Head(raw)>> \o Cooked(Tail(raw))

\* line 111 as constants.ts writes it: what stands between the brackets of
\* the character class, and what stands between the quotes of the replacement
rawClass == <<".", "*", "+", "?", "^", "\\", "\\", "\\", "$", "{", "}", "(", ")", "|", "[",
    "\\", "\\", "]", "\\", "\\", "\\", "\\">>
rawReplacement == <<"\\", "\\", "\\", "\\", "$", "&">>

\* the characters of a character class of a regular expression: a backslash
\* makes the next character a member
RECURSIVE ClassMembers(_)
ClassMembers(c) ==
    IF c = <<>> THEN {}
    ELSE IF Head(c) = "\\" /\ Len(c) >= 2
         THEN {c[2]} \cup ClassMembers(SubSeq(c, 3, Len(c)))
         ELSE {Head(c)} \cup ClassMembers(Tail(c))

\* the class and the replacement as the running script has them
scriptMetaChars == ClassMembers(Cooked(rawClass))
scriptReplacement == Cooked(Cooked(rawReplacement))

\* the class of the script without the dollar sign
scriptEscapeNoDollar(s) ==
    LET piece(i) == IF s[i] \in scriptMetaChars \ {"$"}
                    THEN GetSubstitution(<<s[i]>>, s, i, scriptReplacement)
                    ELSE <<s[i]>>
    IN  Join([i \in 1..Len(s) |-> piece(i)], <<>>)

\* source.replace(/[...]/g, '...') of the script (line 111)
scriptEscape(s) ==
    LET piece(i) == IF s[i] \in scriptMetaChars
                    THEN GetSubstitution(<<s[i]>>, s, i, scriptReplacement)
                    ELSE <<s[i]>>
    IN  Join([i \in 1..Len(s) |-> piece(i)], <<>>)

\* source and target of the callback of the script (lines 105-106)
scriptSource(m, map) ==
    IF m = modeSIL THEN Prop(map, "realSignal") ELSE Prop(map, "simSignal")
scriptTarget(m, map) ==
    IF m = modeSIL THEN Prop(map, "simSignal") ELSE Prop(map, "realSignal")

\* lenA / lenB of the comparator of the script (lines 99-100): (x || "").length
scriptSortLen(m, map) == Len(scriptSource(m, map))

\* the place of element i under the stable sort with lenB - lenA (lines 98-102)
scriptSortRank(m, ms, i) ==
    1 + Cardinality({j \in 1..Len(ms) :
            \/ scriptSortLen(m, ms[j]) > scriptSortLen(m, ms[i])
            \/ scriptSortLen(m, ms[j]) = scriptSortLen(m, ms[i]) /\ j < i})

scriptSorted(m, ms) ==
    [k \in 1..Len(ms) |-> ms[CHOOSE i \in 1..Len(ms) : scriptSortRank(m, ms, i) = k]]

\* one callback of sortedMappings.forEach of the script (lines 104-119)
scriptForEachBody(st, m, map) ==
    LET source == scriptSource(m, map)
        target == scriptTarget(m, map)
        regex == RegExpAtoms(scriptEscape(source))
        matches == MatchIndices(regex, st.code, 1)
    IN  IF source = <<>> \/ target = <<>> THEN st
        ELSE IF matches = <<>> THEN st
        ELSE [code |-> ReplaceFrom(st.code, matches, MatchWidth(regex), target, 1),
              changes |-> st.changes + Len(matches)]

RECURSIVE scriptForEachFrom(_, _, _, _)
scriptForEachFrom(st, m, sorted, k) ==
    IF k > Len(sorted) THEN st
    ELSE scriptForEachFrom(scriptForEachBody(st, m, sorted[k]), m, sorted, k + 1)

\* performTransformation of the script (lines 93-122): the mode is compared
\* with 'SIL' and every other text takes the other branch
performTransformation(c, m, ms) ==
    scriptForEachFrom([code |-> c, changes |-> 0], m, scriptSorted(m, ms), 1)

\* the text of the usage (lines 127-134) and the other lines printed
Usage == " Usage: node capl-transformer.js <input> <output> [options]"

\* the run before its first statement: files maps the paths that exist to
\* their content and to whether they can be read
Started(argv, files, embedded) ==
    [pc |-> "main", argv |-> argv, files |-> files, embedded |-> embedded,
     inputFile |-> <<>>, outputFile |-> <<>>, mode |-> <<>>, activeMappings |-> <<>>,
     stdout |-> <<>>, stderr |-> <<>>, exitCode |-> <<>>, read |-> {}, written |-> <<>>]

\* process.exit(n), or the end of the script
Exit(run, n) == [run EXCEPT !.pc = "exited", !.exitCode = <<n>>]

ConsoleLog(run, line) == [run EXCEPT !.stdout = Append(@, line)]
ConsoleError(run, line) == [run EXCEPT !.stderr = Append(@, line)]

\* fs.existsSync
ExistsSync(run, path) == path \in DOMAIN run.files

\* fs.readFileSync throws for a file that cannot be read
ReadThrows(run, path) == ~run.files[path].readable

\* lines 125-144: the check of the arguments and the constants read from them
cliMain(run) ==
    LET args == run.argv
        modeArg == Find(args, prefixMode)
    IN  IF Len(args) < 2
        THEN Exit(ConsoleLog(run, Usage), 1)
        ELSE [run EXCEPT !.pc = "mapping",
                         !.inputFile = args[1],
                         !.outputFile = args[2],
                         !.mode = IF modeArg # <<>>
                                  THEN ToUpperCase(Split(modeArg[1], "=")[2])
                                  ELSE modeSIL,
                         !.activeMappings = run.embedded]

\* lines 146-166: the external mapping file
cliLoadMapping(run) ==
    LET mappingArg == Find(run.argv, prefixMapping)
        mappingPath == Split(mappingArg[1], "=")[2]
        failed(r, message) == Exit(ConsoleError(r, "Error loading mapping file: " \o message), 1)
        loading == ConsoleLog([run EXCEPT !.read = @ \cup {mappingPath}],
                              "Loading external mappings from ${mappingPath}...")
        json == JSONParse(run.files[mappingPath].content)
    IN  IF mappingArg = <<>>
        THEN [ConsoleLog(run, "Using embedded default mappings.") EXCEPT !.pc = "transform"]
        ELSE IF ~ExistsSync(run, mappingPath)
        THEN failed(run, "Mapping file not found")
        ELSE IF ReadThrows(run, mappingPath)
        THEN failed(loading, "read")
        ELSE IF ~json.ok
        THEN failed(loading, "SyntaxError")
        ELSE IF ~IsArray(json.value)
        THEN failed(loading, "Mapping file must contain a JSON array.")
        ELSE [loading EXCEPT !.pc = "transform", !.activeMappings = JsValue(json.value)]

\* lines 168-185: read, transform, write
cliTransform(run) ==
    LET failed(r, message) == Exit(ConsoleError(r, "Error: " \o message), 1)
        reading == ConsoleLog([run EXCEPT !.read = @ \cup {run.inputFile}],
                              "Reading ${inputFile}...")
        res == performTransformation(run.files[run.inputFile].content, run.mode,
                                     run.activeMappings)
        written == [reading EXCEPT
                       !.written = Append(@, [path |-> run.outputFile, content |-> res.code]),
                       !.stdout = @ \o <<"Applying ${activeMappings.length} mapping rules",
                                         "Success: Written to ${outputFile}",
                                         "Changes made: ${result.changes}">>]
    IN  IF ~ExistsSync(run, run.inputFile)
        THEN failed(run, "Input file not found")
        ELSE IF ReadThrows(run, run.inputFile)
        THEN failed(reading, "read")
        ELSE Exit(written, 0)

pathIn == <<"i", "n", ".", "c", "a", "n">>
pathOut == <<"o", "u", "t", ".", "c", "a", "n">>
pathMap == <<"m", ".", "j", "s", "o", "n">>
pathEq == <<"a", "=", "b", ".", "j", "s", "o", "n">>
pathA == <<"a">>
optMode == <<"-", "-", "m", "o", "d", "e", "=", "h", "i", "l">>
optMap == <<"-", "-", "m", "a", "p", "p", "i", "n", "g", "=", "m", ".", "j", "s", "o", "n">>
optMapEq == <<"-", "-", "m", "a", "p", "p", "i", "n", "g", "=", "a", "=", "b", ".", "j",
    "s", "o", "n">>

optModeSil == <<"-", "-", "m", "o", "d", "e", "=", "s", "i", "l">>
optModeXyz == <<"-", "-", "m", "o", "d", "e", "=", "x", "y", "z">>
optModeEq == <<"-", "-", "m", "o", "d", "e", "=", "s", "i", "l", "=", "x">>

\* the command lines of the runs
Argvs == {<<pathIn, pathOut, optModeSil>>, <<pathIn, pathOut, optModeXyz>>,
          <<pathIn, pathOut, optModeEq>>,
          <<>>, <<pathIn>>, <<pathIn, optMode>>, <<optMode, optMap>>, <<pathIn, pathOut>>,
          <<pathIn, pathOut, optMode>>, <<pathIn, pathOut, optMap>>,
          <<pathIn, pathOut, optMapEq>>, <<pathIn, pathOut, optMode, optMap>>}

File(content) == [readable |-> TRUE, content |-> content]
Unreadable == [readable |-> FALSE, content |-> <<>>]
Absent == [absent |-> TRUE]

\* the files at the paths the runs name: each absent or present, the mapping
\* file also unreadable or with a content that is no JSON array
FileSystems ==
    {LET all == (pathIn :> i) @@ (pathMap :> m) @@ (pathA :> a)
     IN  [path \in {q \in DOMAIN all : all[q] # Absent} |-> all[path]] :
        i \in {Absent, File(txtTyped)},
        m \in {Absent, Unreadable, File(payloadRules), File(payloadObject),
               File(payloadBroken)},
        a \in {Absent, File(payloadEmpty)}}

\* the stores the script was exported from
ExportedStores == {DEFAULT_MAPPINGS, JsValue(JSONParse(payloadRules).value)}

InitCli ==
    /\ inputCode = txtTyped
    /\ outputCode = performLocalTransformation(txtTyped, INITIAL_MODE, Rules(DEFAULT_MAPPINGS)).code
    /\ mode = INITIAL_MODE
    /\ mappings = DEFAULT_MAPPINGS
    /\ changeCount =
           <<performLocalTransformation(txtTyped, INITIAL_MODE, Rules(DEFAULT_MAPPINGS)).changes>>
    /\ isAiProcessing = FALSE
    /\ isReadmeOpen = FALSE
    /\ terminalLogs = <<>>
    /\ effectPending = FALSE
    /\ fileDialog = "none"
    /\ downloads = <<>>
    /\ alerts = <<>>
    /\ jsonError = <<>>
    /\ isAiLoading = FALSE
    /\ scanClosure = <<>>
    /\ events = 0
    /\ transformClosure = <<>>
    /\ \E argv \in Argvs, files \in FileSystems, store \in ExportedStores :
           cli = Started(argv, files, EMBEDDED_MAPPINGS(scriptContent(store)).value)
    /\ code = <<>>
    /\ callMode = SIL
    /\ callMappings = <<>>
    /\ args0 = Call(<<>>, SIL, <<>>)
    /\ sortedMappings = <<>>
    /\ transformedCode = <<>>
    /\ changesCount = 0
    /\ idx = 0
    /\ pc = "idle"
    /\ result = NoResult
    /\ back = NoResult
    /\ passes = 0
    /\ applied = <<>>
    /\ lastPass = NoPass
    /\ occSum = 0

CliMain ==
    /\ cli.pc = "main"
    /\ cli' = cliMain(cli)
    /\ UNCHANGED <<engineVars, historyVars, appVars>>

CliLoadMapping ==
    /\ cli.pc = "mapping"
    /\ cli' = cliLoadMapping(cli)
    /\ UNCHANGED <<engineVars, historyVars, appVars>>

CliTransform ==
    /\ cli.pc = "transform"
    /\ cli' = cliTransform(cli)
    /\ UNCHANGED <<engineVars, historyVars, appVars>>

NextCli == CliMain \/ CliLoadMapping \/ CliTransform

SpecCli == InitCli /\ [][NextCli]_vars

----------------------------------------------------------------------------
(* Claims about the command interpreter, checked under Spec *)

Range(f) == {f[i] : i \in DOMAIN f}

\* the commands and aliases of the command table
RecognizedCommands ==
    {cmdHelp, cmdQuestion, cmdUpload, cmdLoad, cmdRun, cmdTransform, cmdDownload, cmdSave,
     cmdExport, cmdBatch, cmdCli, cmdSwap, cmdReplace, cmdMode, cmdClear, cmdReadme,
     cmdDocs, cmdMan}

tokFoobar == <<"f", "o", "o", "b", "a", "r">>

\* the entries a step appends to the log
Appended == SubSeq(terminalLogs', Len(terminalLogs) + 1, Len(terminalLogs'))

KeepsOldLogs == SubSeq(terminalLogs', 1, Len(terminalLogs)) = terminalLogs

\* the step is SubmitLine(input): the handler starts by echoing the line, and
\* only a step that shows this echo is compared with the handler
Submitted(input) ==
    /\ Len(terminalLogs') > Len(terminalLogs)
    /\ terminalLogs'[Len(terminalLogs) + 1] = LogEntry(">", " ${cmdStr}", <<Trim(input)>>)
    /\ SubmitLine(input)

ErrorTagged(e) == e.tag = "Error:"

\* C9: submitting a line whose command token is not a recognized command or
\* alias (such as "foobar") appends exactly one error-tagged log entry, which
\* names the offending token, and leaves the source text, the mode and the
\* mapping store unchanged.
C9_UnknownCommand ==
    [][\A input \in CommandLines :
          (Submitted(input) /\ ParseCommand(input).cmd \notin RecognizedCommands) =>
              LET errors == {i \in 1..Len(Appended) : ErrorTagged(Appended[i])}
              IN  /\ KeepsOldLogs
                  /\ Cardinality(errors) = 1
                  /\ \A i \in errors :
                        /\ ParseCommand(input).cmd \in Range(Appended[i].args)
                        /\ input \in {lineFoobar, lineFooBarArg} =>
                              Appended[i].args = <<tokFoobar>>
                  /\ UNCHANGED <<inputCode, mode, mappings>>]_vars

\* "FooBar now" was submitted: the log ends with its echo and the error
\* naming foobar
C9_Witness ==
    /\ Len(terminalLogs) >= 2
    /\ terminalLogs[Len(terminalLogs) - 1] = LogEntry(">", " ${cmdStr}", <<lineFooBarArg>>)
    /\ ErrorTagged(terminalLogs[Len(terminalLogs)])
    /\ terminalLogs[Len(terminalLogs)].args = <<tokFoobar>>
    /\ inputCode = DEFAULT_CAPL_CODE
    /\ mappings = DEFAULT_MAPPINGS

\* the mode lines of CommandLines by what the command table says of them
ModeLinesHIL == {lineModeHil, lineModeH}
ModeLinesSIL == {lineModeSil, lineModeS}
ModeLinesUsage == {lineModeXyz, lineMode}

\* the line starts with the word mode, in any letter case
IsModeLine(line) ==
    /\ Len(line) >= Len(cmdMode)
    /\ ToLowerCase(SubSeq(line, 1, Len(cmdMode))) = cmdMode
    /\ Len(line) > Len(cmdMode) => line[Len(cmdMode) + 1] = " "

UsageError == LogEntry("Error:", " Usage 'mode hil' or 'mode sil'", <<>>)

\* C10: the mode command sets the mode to HIL when its argument is hil or h
\* and to SIL when it is sil or s, in any letter case of the argument and of
\* the command token; for any other argument, or none, the mode is left
\* unchanged and a usage-error log entry is appended.  In no case does the
\* command change the source text or the mapping store.
C10_ModeCommand ==
    [][\A input \in CommandLines :
          Submitted(input) =>
              /\ input \in ModeLinesHIL => mode' = HIL
              /\ input \in ModeLinesSIL => mode' = SIL
              /\ input \in ModeLinesUsage =>
                    /\ mode' = mode
                    /\ KeepsOldLogs
                    /\ Len(Appended) = 2
                    /\ Appended[2] = UsageError
              /\ IsModeLine(Trim(input)) =>
                    /\ input \in ModeLinesHIL \cup ModeLinesSIL \cup ModeLinesUsage
                    /\ UNCHANGED <<inputCode, mappings>>]_vars

\* " mode H " set the mode to HIL and "mode xyz" then left it there
C10_Witness ==
    /\ Len(terminalLogs) = 4
    /\ terminalLogs[1] = LogEntry(">", " ${cmdStr}", <<Trim(lineModeH)>>)
    /\ terminalLogs[2].tag = "Info:"
    /\ terminalLogs[3] = LogEntry(">", " ${cmdStr}", <<lineModeXyz>>)
    /\ terminalLogs[4] = UsageError
    /\ mode = HIL
    /\ inputCode = DEFAULT_CAPL_CODE
    /\ mappings = DEFAULT_MAPPINGS

\* the lines of CommandLines by the command they name
SwapLines == {lineSwap, lineReplace}
DownloadLines == {lineDownload, lineSave}
RunLines == {lineRun, lineTransform}

\* C11: after a swap (or replace) issued while transformed text exists, the
\* source text equals the transformed text from before the swap, the mode is
\* the opposite of what it was, the transformed text is empty, and the
\* mapping store is unchanged.
C11_SwapResult ==
    [][\A input \in SwapLines :
          (Submitted(input) /\ outputCode # <<>>) =>
              /\ inputCode' = outputCode
              /\ mode' = OppositeMode(mode)
              /\ outputCode' = <<>>
              /\ mappings' = mappings]_vars

\* C12: when the transformed text is empty, swap and download each append an
\* error log entry and change nothing else and export nothing: source text,
\* transformed text, mode and mapping store are as before.
C12_NothingToSwapOrDownload ==
    [][\A input \in SwapLines \cup DownloadLines :
          (Submitted(input) /\ outputCode = <<>>) =>
              /\ KeepsOldLogs
              /\ Len(Appended) = 2
              /\ ErrorTagged(Appended[2])
              /\ UNCHANGED <<inputCode, outputCode, mode, mappings, changeCount, downloads>>]_vars

\* the source was cleared, and "swap" was then answered with an error
C12_Witness ==
    /\ Len(terminalLogs) = 4
    /\ terminalLogs[1] = LogEntry(">", " ${cmdStr}", <<lineClear>>)
    /\ terminalLogs[3] = LogEntry(">", " ${cmdStr}", <<lineSwap>>)
    /\ terminalLogs[4] = LogEntry("Error:", " No output code available to swap.", <<>>)
    /\ inputCode = <<>>
    /\ outputCode = <<>>
    /\ mode = INITIAL_MODE
    /\ downloads = <<>>

\* C13: the run (or transform) command invokes the engine on the current
\* source text, mode and mapping store, sets the transformed text and the
\* change count to that result, appends one success log entry carrying exactly
\* that change count, and leaves source text, mode and mapping store unchanged.
C13_RunCommand ==
    [][\A input \in RunLines :
          Submitted(input) =>
              LET r == performLocalTransformation(inputCode, mode, Rules(mappings))
              IN  /\ outputCode' = r.code
                  /\ changeCount' = <<r.changes>>
                  /\ KeepsOldLogs
                  /\ Len(Appended) = 2
                  /\ Appended[2].tag = "Success:"
                  /\ Appended[2].args = <<NumToString(r.changes)>>
                  /\ (inputCode = DEFAULT_CAPL_CODE /\ mode = SIL /\ mappings = DEFAULT_MAPPINGS) =>
                        /\ changeCount' = <<6>>
                        /\ Appended[2].args = << <<"6">> >>
                  /\ (inputCode = txtTyped /\ mappings = DEFAULT_MAPPINGS) =>
                        Appended[2].args = << <<"1">> >>
                  /\ UNCHANGED <<inputCode, mode, mappings>>]_vars

\* "transform" ran on the typed line in HIL mode: one replacement, logged as 1
C13_Witness ==
    /\ terminalLogs # <<>>
    /\ terminalLogs[Len(terminalLogs)].tag = "Success:"
    /\ terminalLogs[Len(terminalLogs)].args = << <<"1">> >>
    /\ terminalLogs[Len(terminalLogs) - 1] = LogEntry(">", " ${cmdStr}", <<lineTransform>>)
    /\ inputCode = txtTyped
    /\ mode = HIL
    /\ changeCount = <<1>>
    /\ outputCode # inputCode

----------------------------------------------------------------------------
(* Claims about the imports and the Mapping Store *)

\* the payloads that are not JSON, and those whose root is not a sequence
NotJson == {payloadBroken}
NotSequence == {payloadObject, payloadNull}

\* the import of payload p, by whichever of the three ways, leaves the
\* mapping store and the transformed text as they were and reports an error:
\* in the log, in an alert, or as the error of the JSON view
ImportRejected(p) ==
    LET file == [name |-> fileName, content |-> p]
    IN  /\ MappingFileLoaded(file) =>
              /\ mappings' = mappings
              /\ outputCode' = outputCode
              /\ KeepsOldLogs
              /\ Len(Appended) = 1
              /\ ErrorTagged(Appended[1])
        /\ EditorFileLoaded(file) =>
              /\ mappings' = mappings
              /\ outputCode' = outputCode
              /\ Len(alerts') = Len(alerts) + 1
        /\ JsonEdited(p) =>
              /\ mappings' = mappings
              /\ outputCode' = outputCode
              /\ jsonError' # <<>>

\* C14: importing a mapping payload (file chosen from the terminal or the
\* header, file chosen in the editor, or JSON-editor commit) that is not
\* parseable JSON, or whose root is not a sequence, is rejected: the mapping
\* store is as before the import and an error is reported.
C14_ImportRejected == [][\A p \in NotJson \cup NotSequence : ImportRejected(p)]_vars

\* a store loaded from a file has withstood an object in the JSON view, a
\* broken file in the editor and null from the header
C14_Witness ==
    /\ mappings = JsValue(JSONParse(payloadRules).value)
    /\ Len(mappings) = 2
    /\ mappings[2].realSignal = <<"$", "$", "A">>
    /\ jsonError = <<"Root must be an array">>
    /\ alerts = <<"Failed to parse JSON file.">>
    /\ terminalLogs # <<>>
    /\ terminalLogs[Len(terminalLogs)] =
           LogEntry("Error:", " Invalid JSON format. Expected an array.", <<>>)

\* a parsed value is a record with string fields id, realSignal and simSignal
RuleShaped(v) ==
    /\ v.type = "object"
    /\ \A f \in {"id", "realSignal", "simSignal"} :
          \E k \in 1..Len(v.members) :
              v.members[k].key = FieldChars[f] /\ v.members[k].value.type = "string"

\* the payload is JSON for a sequence of rule-shaped records
ValidPayload(p) ==
    /\ ParseText(p).ok
    /\ ParseText(p).value.type = "array"
    /\ \A i \in 1..Len(ParseText(p).value.items) : RuleShaped(ParseText(p).value.items[i])

InvalidPayloads == {p \in Payloads : ~ValidPayload(p)}

\* C15: a replace-all (file import, JSON-editor commit) accepts an input only
\* if it is a sequence in which every element is a record with string fields
\* id, realSignal and simSignal; for any other input, such as a sequence with
\* a record that lacks realSignal, the mapping store is left unchanged and an
\* error is signaled.
C15_ImportValidated == [][\A p \in InvalidPayloads : ImportRejected(p)]_vars

\* C16: in every reachable state of the mapping store no two rules have the
\* same id.
C16_UniqueIds ==
    \A i, j \in 1..Len(mappings) :
        i # j => Prop(mappings[i], "id") # Prop(mappings[j], "id")

----------------------------------------------------------------------------
(* Claims about the edits of the store *)

IsNumeral(id) == id # <<>> /\ \A i \in 1..Len(id) : id[i] \in DigitChars

\* the ids of a store that are numerals, as naturals in digits
NumericIds(ms) ==
    {StripZeros(Prop(ms[i], "id")) : i \in {k \in 1..Len(ms) : IsNumeral(Prop(ms[k], "id"))}}

\* the decimal string of one plus the largest of them, in exact arithmetic
NextNumeral(ms) ==
    IF NumericIds(ms) = {} THEN <<"1">>
    ELSE Inc(CHOOSE a \in NumericIds(ms) : \A b \in NumericIds(ms) : ~Less(a, b))

\* C26: Add appends exactly one rule at the end of the store, with an empty
\* realSignal and simSignal and the id that is the decimal string of one plus
\* the largest numeric id present ("1" when there is none); that id differs
\* from the id of every rule already in the store, and the rules already in
\* the store keep their position and their fields.
C26_AddAppendsFresh ==
    [][AddClicked =>
          /\ Len(mappings') = Len(mappings) + 1
          /\ SubSeq(mappings', 1, Len(mappings)) = mappings
          /\ Prop(mappings'[Len(mappings')], "realSignal") = <<>>
          /\ Prop(mappings'[Len(mappings')], "simSignal") = <<>>
          /\ Prop(mappings'[Len(mappings')], "id") = NextNumeral(mappings)
          /\ Prop(mappings'[Len(mappings')], "id") \notin ShownIds]_vars

\* the store that the claim gives the merge of the suggestions from k on into
\* store, max being the largest numeric id given so far
RECURSIVE MergedFrom(_, _, _, _)
MergedFrom(store, max, suggestions, k) ==
    IF k > Len(suggestions) THEN store
    ELSE IF \E i \in 1..Len(store) :
                Prop(store[i], "realSignal") = Prop(suggestions[k], "realSignal")
         THEN MergedFrom(store, max, suggestions, k + 1)
         ELSE MergedFrom(Append(store, WithField(suggestions[k], "id", Inc(max))),
                         Inc(max), suggestions, k + 1)

LargestNumeric(ms) ==
    IF NumericIds(ms) = {} THEN zero
    ELSE CHOOSE a \in NumericIds(ms) : \A b \in NumericIds(ms) : ~Less(a, b)

\* the suggestions that a reply of the service becomes for the pending scan
Suggested(reply) == generateMappingsFromCode(scanClosure[1].currentCode, reply)

\* C27: when the suggestions arrive, the store becomes the store as it was
\* followed by each suggestion whose realSignal no rule of the store and no
\* suggestion appended before it has, with the ids max+1, max+2, ... after the
\* largest numeric id max of the store; these ids differ from each other and
\* from the ids already there, the rules already there keep their position
\* and fields, and an empty list of suggestions leaves the store as it was.
C27_MergeSuggested ==
    [][\A reply \in AiReplies :
          AiScanReturned(reply) =>
              /\ mappings' = MergedFrom(mappings, LargestNumeric(mappings), Suggested(reply), 1)
              /\ \A i, j \in (Len(mappings) + 1)..Len(mappings') :
                     i # j => Prop(mappings'[i], "id") # Prop(mappings'[j], "id")
              /\ \A i \in (Len(mappings) + 1)..Len(mappings') :
                     Prop(mappings'[i], "id") \notin ShownIds]_vars

\* C28: an edit of the store made while a suggestion request is pending is
\* not lost: when the suggestions arrive they are merged into the store as it
\* is then, so the store before the merge is the beginning of the store after
\* it.
C28_NoLostEdit ==
    [][\A reply \in AiReplies :
          AiScanReturned(reply) =>
              /\ Len(mappings') >= Len(mappings)
              /\ SubSeq(mappings', 1, Len(mappings)) = mappings]_vars

----------------------------------------------------------------------------
(* Claims about the AI calls *)

\* C17: a failed AI call, be it the AI code transformation or the AI mapping
\* suggestion, appends an error-tagged log entry and leaves the source text,
\* the transformed text, the change count, the mode and the mapping store as
\* they were.
C17_FailedAiCall ==
    [][(AiTransformReturned(answerFailed) \/ AiScanReturned(replyFailed)) =>
          /\ KeepsOldLogs
          /\ Len(Appended) = 1
          /\ ErrorTagged(Appended[1])
          /\ UNCHANGED <<inputCode, outputCode, changeCount, mode, mappings>>]_vars
----------------------------------------------------------------------------
(* Claims about the exported batch program *)

IsOption(a) == StartsWith(a, prefixMode) \/ StartsWith(a, prefixMapping)
IsPositional(a) == ~IsOption(a)

\* the arguments that are no --mode= or --mapping= option
Positionals(argv) == SelectSeq(argv, IsPositional)

Running == cli.pc # "none"
Exited == cli.pc = "exited"

\* C18: a run with fewer than 2 positional arguments reads and writes no
\* file and ends by printing the usage text and exiting with code 1, however
\* many option arguments are given with them.
C18_UsageOnFewPositionals ==
    (Running /\ Len(Positionals(cli.argv)) < 2) =>
        /\ cli.read = {}
        /\ cli.written = <<>>
        /\ Exited => (cli.stdout = <<Usage>> /\ cli.exitCode = <<1>>)

\* the path written after --mapping= in the first such option
GivenMappingPath == 
    LET arg == Find(cli.argv, prefixMapping)[1]
    IN  SubSeq(arg, Len(prefixMapping) + 1, Len(arg))

MappingGiven == Find(cli.argv, prefixMapping) # <<>>

Readable(path) == path \in DOMAIN cli.files /\ cli.files[path].readable

IsJsonSequence(text) == ParseText(text).ok /\ IsArray(ParseText(text).value)

\* the three cases of failure of the claim, for a run with its two
\* positional arguments in front
MappingFileMissing == MappingGiven /\ ~Readable(GivenMappingPath)
MappingFileNoSequence ==
    /\ MappingGiven
    /\ Readable(GivenMappingPath)
    /\ ~IsJsonSequence(cli.files[GivenMappingPath].content)
InputFileMissing == cli.argv[1] \notin DOMAIN cli.files

Reported == cli.stderr # <<>>
OutputWritten == \E k \in 1..Len(cli.written) : cli.written[k].path = cli.argv[2]

\* C19: when the --mapping path is given but absent or unreadable, when the
\* mapping file holds no JSON sequence, and when the input file is missing,
\* the run reports an error, exits with code 1 and never writes the output
\* path; and it exits with code 0 only after the output path was written.
C19_FailuresExitOne ==
    (Running /\ Len(cli.argv) >= 2 /\ IsPositional(cli.argv[1]) /\ IsPositional(cli.argv[2])) =>
        /\ (MappingFileMissing \/ MappingFileNoSequence \/ InputFileMissing) =>
               /\ ~OutputWritten
               /\ Exited => (cli.exitCode = <<1>> /\ Reported)
        /\ (Exited /\ cli.exitCode = <<0>>) => OutputWritten

\* the text written after --mode= in the first such option
ModeGiven == Find(cli.argv, prefixMode) # <<>>
GivenMode ==
    LET arg == Find(cli.argv, prefixMode)[1]
    IN  SubSeq(arg, Len(prefixMode) + 1, Len(arg))

\* the direction that the claim gives the run
ClaimedDirection == IF ~ModeGiven \/ ToUpperCase(GivenMode) = modeSIL THEN SIL ELSE HIL

\* C25: a run of the batch program replaces realSignal by simSignal exactly
\* when --mode is absent or its value is SIL in upper case, and simSignal by
\* realSignal for every other value; and with its input file present and no
\* mapping file named it ends with exit code 0 whatever the --mode value.
C25_ModeDirection ==
    (Exited /\ Len(cli.argv) >= 2 /\ IsPositional(cli.argv[1]) /\ IsPositional(cli.argv[2])
            /\ ~MappingGiven /\ Readable(cli.argv[1])) =>
        /\ cli.exitCode = <<0>>
        /\ Len(cli.written) = 1
        /\ cli.written[1].content =
               performLocalTransformation(cli.files[cli.argv[1]].content, ClaimedDirection,
                                          Rules(cli.embedded)).code

ExportLines == {lineExport}

LastDownload == downloads'[Len(downloads')]

\* C20: the mapping set embedded in an exported script equals the mapping
\* store at the moment of the export, rule for rule and field for field, for
\* every store content.
C20_EmbeddedEqualsStore ==
    [][(ExportClicked \/ \E input \in ExportLines : Submitted(input)) =>
          /\ Len(downloads') = Len(downloads) + 1
          /\ EMBEDDED_MAPPINGS(LastDownload.content).ok
          /\ EMBEDDED_MAPPINGS(LastDownload.content).value = mappings]_vars
\* C21: the performTransformation of the exported script returns, for every
\* source text, both modes and every sequence of rules with string fields,
\* the code and the changes that performLocalTransformation returns.
C21_SameEngine ==
    performTransformation(args0.code, ModeText(args0.mode), args0.mappings)
        = performLocalTransformation(args0.code, args0.mode, args0.mappings)

\* both engines turned "$SpeedFront" into "B", the longer pattern first
C21_Witness ==
    /\ pc = "done"
    /\ args0 = Call(txtSpeedFront, SIL, <<ruleSpeed, ruleSpeedFront>>)
    /\ result = [code |-> <<"B">>, changes |-> 1]
    /\ performTransformation(args0.code, modeSIL, args0.mappings) = result
----------------------------------------------------------------------------
(* Claims about the order of application *)

ruleAtoB == SignalMapping(<<"1">>, <<"A">>, <<"B">>)
ruleAtoAA == SignalMapping(<<"5">>, <<"A">>, <<"A", "A">>)

\* the rules applied one after the other, each replacing once, from left to
\* right, the occurrences of its pattern in the text that the rules before it
\* have produced
RECURSIVE SequentialFrom(_, _, _, _)
SequentialFrom(st, m, rules, k) ==
    IF k > Len(rules) THEN st
    ELSE LET source == SourceOf(m, rules[k])
             occ == LiteralOccurrences(source, st.code, 1)
         IN  SequentialFrom([code |-> ReplaceFrom(st.code, occ, Len(source),
                                                  TargetOf(m, rules[k]), 1),
                             changes |-> st.changes + Len(occ)],
                            m, rules, k + 1)

\* C24: the rules are applied one after the other, each doing one global
\* left-to-right replacement on the text that the rules before it produced:
\* what an earlier rule put in is replaced, and counted, by a later rule
\* whose pattern it holds ("A" with A -> AA and then A -> B gives "BB" and
\* 3 changes), and what a rule put in is not scanned again by that rule
\* ("A" with A -> AA alone gives "AA" and 1 change).
C24_Sequential ==
    Returned =>
        /\ result = SequentialFrom([code |-> args0.code, changes |-> 0], args0.mode,
                                   applied, 1)
        /\ args0 = Call(<<"A">>, SIL, <<ruleAtoAA, ruleAtoB>>) =>
               result = [code |-> <<"B", "B">>, changes |-> 3]
        /\ args0 = Call(<<"A">>, SIL, <<ruleAtoAA>>) =>
               result = [code |-> <<"A", "A">>, changes |-> 1]

\* A -> AA was applied to "A" and A -> B to what it left
C24_Witness ==
    /\ pc = "done"
    /\ args0 = Call(<<"A">>, SIL, <<ruleAtoAA, ruleAtoB>>)
    /\ applied = <<ruleAtoAA, ruleAtoB>>
    /\ result = [code |-> <<"B", "B">>, changes |-> 3]

----------------------------------------------------------------------------
(* Claims about the log *)

\* the five category tags (Terminal.tsx lines 56-65)
CategoryTags == {">", "Info:", "Success:", "Error:", "Action:"}

\* C22: every command line handled by the interpreter appends at least one
\* log entry, the first being the echo of the line; every entry appended
\* carries one of the five category tags; and the entries that were in the
\* log stay as they were.
C22_TaggedEntries ==
    [][\A input \in CommandLines :
          Submitted(input) =>
              /\ KeepsOldLogs
              /\ Len(Appended) >= 1
              /\ Appended[1] = LogEntry(">", " ${cmdStr}", <<Trim(input)>>)
              /\ \A k \in 1..Len(Appended) : Appended[k].tag \in CategoryTags]_vars
----------------------------------------------------------------------------
(* Claims about the recomputation *)

\* C23: whenever the source text, the mode or the mapping store changes, the
\* state that the change leads to, the recomputation it triggers included,
\* has the transformed text and the change count of the engine on the new
\* source, mode and store; also while an AI transformation is pending.
C23_Recomputed ==
    [][(inputCode' # inputCode \/ mode' # mode \/ mappings' # mappings) =>
          LET r == performLocalTransformation(inputCode', mode', Rules(mappings'))
          IN  /\ outputCode' = r.code
              /\ changeCount' = <<r.changes>>]_vars
====
